---- MODULE Spec2Model ----
(***************************************************************************)
(* A model of the docatlas-core persistence layer:                         *)
(*   - PersistentVec<T>  (persist/persisted_vec.rs): a length-prefixed,    *)
(*     growable vector laid out inside one mapped block;                   *)
(*   - Block / BlockBuilder (persist/block.rs): the mapped arena, the      *)
(*     process-wide OPEN_PATHS registry and the drop path.                 *)
(*                                                                         *)
(*   - SplitMut (persist/persisted_vec.rs): per-chunk atomic access      *)
(*     states over a vector;                                               *)
(*   - PersistedCell<T> (persist/persisted_cell.rs): one value in a block. *)
(*                                                                         *)
(* Spec      : one PersistentVec<T> on a path-backed block.                *)
(* SpecBlock : threads building and dropping path-backed blocks.           *)
(* SpecArena : one thread building anonymous and path-backed blocks.       *)
(* SpecSplit : threads calling SplitMut::read / write on one vector.       *)
(* SpecChunk : Split / SplitMut chunk counts and chunk ranges.             *)
(* SpecPush  : push with its growth loop one iteration at a time.          *)
(* SpecDisk  : one DiskVector (mem/disk_vector.rs).                        *)
(* SpecSegment : one Segment<T> with its Ref / RefMut handles.             *)
(* SpecAuth  : one AuthenticationToolchain and its caller.                 *)
(* SpecCell  : three PersistedCells used from one thread.                  *)
(***************************************************************************)
EXTENDS Integers, Naturals, Sequences, FiniteSets, TLC

VARIABLES
    \* ---- PersistentVec (Spec) ----
    elemSize,   \* T::size(): bytes per element of the vector's element type
    blockSize,  \* block.size(): byte length of the mapped arena
    lenWord,    \* the usize stored in the first word of the mapping (len)
    mem,        \* element slots following the length word; slot i (1-based)
                \* occupies bytes [WordSize+(i-1)*elemSize, WordSize+i*elemSize).
                \* Slots past the arena's bytes are the slack of the last page.
    live,       \* TRUE while the PersistentVec handle exists
    fault,      \* TRUE once an access outside the arena has faulted
    vfile,      \* content of the backing file while no block maps it
    drain,      \* the live Drain iterator, if any
    last,       \* the last operation, its argument and what it returned
    shadow,     \* values pushed and not yet popped in a push*-pop* run
    mode,       \* "pushes" | "pops" | "other": shape of the run so far
    \* ---- Block registry (SpecBlock) ----
    openPaths,  \* OPEN_PATHS: the set of paths held by live blocks
    files,      \* path -> NoFile or the file's bytes
    blocks,     \* block handle -> record (state, path, capacity, bytes)
    pc,         \* thread -> "idle" | "build" (past the registry check)
    req,        \* thread -> the builder the thread is building from
    blast,      \* the last Block operation: thread, path, result
    \* ---- SplitMut (SpecSplit) ----
    split,      \* the SplitMut: source length, split_size, access states
    holds,      \* chunk -> the slices of it still in scope (shared, mutable)
    spc,        \* thread -> "idle" | "read" (inside fetch_update's loop)
    sreq,       \* thread -> the chunk being read and the state last seen
    slast,      \* the last read / write / release and its result
    \* ---- PersistedCell (SpecCell) ----
    cells,      \* cell -> its block's base address, T's alignment, its bytes
    clast,      \* the last cell operation, its argument and result
    \* ---- DiskVector (SpecDisk) ----
    dvec,       \* the DiskVector: len, its RawDiskArray, the file's slots
    \* ---- Segment (SpecSegment) ----
    segm,       \* the Segment: mapped bytes, cached value, the live RefMut
    \* ---- AuthenticationToolchain (SpecAuth) ----
    auth        \* the toolchain's services, the request, the call's progress

vecVars == <<elemSize, blockSize, lenWord, mem, live, fault, vfile,
             drain, last, shadow, mode>>
blkVars == <<openPaths, files, blocks, pc, req, blast>>
splVars == <<split, holds, spc, sreq, slast>>
cellVars == <<cells, clast>>
othVars == <<dvec, segm, auth>>
coreVars == <<vecVars, blkVars, splVars, cellVars>>
extVars == <<splVars, cellVars, othVars>>
vars == <<vecVars, blkVars, extVars>>

-----------------------------------------------------------------------------
\* Bounds of the model

\* the longest vector the model pushes to
MaxLen == 4
\* Reserve is not called once the arena has this many bytes
MaxBlockSize == 12
\* the largest argument given to PersistentVec::reserve
MaxReserve == 1

\* size_of::<usize>() on the 64-bit targets the crate is built for
WordSize == 8

\* element values; 0 is also what a freshly mapped (zero-filled) byte reads as
Values == {0, 1}
\* element sizes: u8 (1 byte) and char / i32 (4 bytes)
ElemSizes == {1, 4}
\* sizes a new block is created with
InitSizes == {8, 12}
MemSlots == MaxLen

NoFile == [size |-> -1, len |-> 0, slots |-> <<>>]
NoBound == [kind |-> "Unbounded", i |-> 0]
\* Drain's fields (start, count, removed); sb, eb, pre and out record the range
\* asked for, the vector's content when drain was called, and the items yielded
NoDrain == [active |-> FALSE, start |-> 0, count |-> 0, removed |-> 0,
            sb |-> NoBound, eb |-> NoBound, pre |-> <<>>, out |-> <<>>]

-----------------------------------------------------------------------------
\* Pure helpers of PersistentVec

Reverse(q) == [i \in 1..Len(q) |-> q[Len(q) + 1 - i]]

\* as_slice(): the first len slots after the length word
Slice(m, len) == SubSeq(m, 1, len)

\* capacity(): block.size() minus the offset of the data pointer (in BYTES)
Capacity(size) == size - WordSize

\* slot i (1-based) lies wholly inside an arena of `size` bytes
SlotInArena(i, size, sz) == WordSize + i * sz <= size

\* Block::reserve(additional): a new mapping of size + additional bytes
BlockReserve(size, additional) == size + additional

\* the slots of a new mapping after reserve: the old arena's bytes are copied,
\* everything else (including the old mapping's slack) reads as zero
Remap(m, oldSize, sz) ==
    [i \in 1..Len(m) |-> IF SlotInArena(i, oldSize, sz) THEN m[i] ELSE 0]

\* the while loop of push: reserve capacity*T::size() + size_of(value) bytes
\* while len + 1 >= capacity
RECURSIVE GrowLoop(_, _, _)
GrowLoop(size, len, sz) ==
    IF len + 1 >= Capacity(size)
    THEN GrowLoop(BlockReserve(size, Capacity(size) * sz + sz), len, sz)
    ELSE size

\* a pop on an empty vector that wipes the arena's slots
PopEmptyWipes(m, len) == [mem |-> [j \in 1..Len(m) |-> 0], len |-> len, out |-> <<>>]

\* pop() on a vector with len = 0: None
PopEmpty(m, len) == [mem |-> m, len |-> len, out |-> <<>>]

\* a bounds check that lets index = len through
OutOfBoundsStrict(index, len) == index > len

\* remove's check: index >= self.len()
OutOfBounds(index, len) == index >= len

\* pop() on a vector with len > 0
PopAt(m, len) == [mem |-> m, len |-> len - 1, out |-> m[len]]

\* a clear that pops once
ClearOnePop(m, len) ==
    IF len > 0 THEN [mem |-> m, len |-> len - 1] ELSE [mem |-> m, len |-> len]

\* clear(): while let Some(popped) = self.pop() { drop(popped) }
RECURSIVE ClearLoop(_, _)
ClearLoop(m, len) ==
    IF len > 0
    THEN ClearLoop(PopAt(m, len).mem, PopAt(m, len).len)
    ELSE [mem |-> m, len |-> len]

\* remove with a move_count that is one short: the last element is not moved
RemoveAtShortMove(m, len, index) ==
    IF index = len - 1
    THEN PopAt(m, len)
    ELSE [mem |-> [j \in 1..Len(m) |->
                      IF j >= index + 1 /\ j <= len - 2 THEN m[j + 1] ELSE m[j]],
          len |-> len - 1,
          out |-> m[index + 1]]

\* remove(index) for index < len (0-based index)
RemoveAt(m, len, index) ==
    IF index = len - 1
    THEN PopAt(m, len)
    ELSE [mem |-> [j \in 1..Len(m) |->
                      IF j >= index + 1 /\ j <= len - 1 THEN m[j + 1] ELSE m[j]],
          len |-> len - 1,
          out |-> m[index + 1]]

\* retain scanning forward over 0..len instead of backward
RECURSIVE RetainForwardFrom(_, _, _, _, _, _)
RetainForwardFrom(m, len, j, n, keep, evals) ==
    IF j > n THEN [mem |-> m, len |-> len, evals |-> evals]
    ELSE IF j < len
         THEN IF m[j + 1] \notin keep
              THEN LET r == RemoveAt(m, len, j)
                   IN RetainForwardFrom(r.mem, r.len, j + 1, n, keep,
                                        Append(evals, m[j + 1]))
              ELSE RetainForwardFrom(m, len, j + 1, n, keep,
                                     Append(evals, m[j + 1]))
         ELSE RetainForwardFrom(m, len, j + 1, n, keep, evals)

RetainForward(m, len, i, keep, evals) ==
    RetainForwardFrom(m, len, 0, i, keep, evals)

\* retain(predicate): i runs over (0..len).rev(); `keep` is the set of values
\* the predicate accepts; evals collects the values the predicate was given
RECURSIVE RetainFrom(_, _, _, _, _)
RetainFrom(m, len, i, keep, evals) ==
    IF i < 0 THEN [mem |-> m, len |-> len, evals |-> evals]
    ELSE IF i < len
         THEN IF m[i + 1] \notin keep
              THEN LET r == RemoveAt(m, len, i)
                   IN RetainFrom(r.mem, r.len, i - 1, keep, Append(evals, m[i + 1]))
              ELSE RetainFrom(m, len, i - 1, keep, Append(evals, m[i + 1]))
         ELSE RetainFrom(m, len, i - 1, keep, evals)

\* last: the operation, its argument (an index, a count or the retained set),
\* what it returned, and a flag (push: the arena grew; retain: the scan order)
Rec(op, arg, ret) == [op |-> op, arg |-> arg, ret |-> ret, ok |-> TRUE]

-----------------------------------------------------------------------------
\* Init of Spec: PersistentVec::new on a freshly created, zero-filled block

BlkIdle ==
    /\ openPaths = {}
    /\ files = <<>>
    /\ blocks = <<>>
    /\ pc = <<>>
    /\ req = <<>>
    /\ blast = <<>>

\* the vector's variables while only blocks are exercised
VecIdle ==
    /\ elemSize = 1
    /\ blockSize = WordSize
    /\ lenWord = 0
    /\ mem = <<>>
    /\ live = FALSE
    /\ fault = FALSE
    /\ vfile = NoFile
    /\ drain = NoDrain
    /\ last = Rec("none", 0, <<>>)
    /\ shadow = <<>>
    /\ mode = "other"

\* the SplitMut's variables while no SplitMut exists
SplIdle ==
    /\ split = <<>>
    /\ holds = <<>>
    /\ spc = <<>>
    /\ sreq = <<>>
    /\ slast = <<>>

\* the cells' variables while no cell exists
CellIdle ==
    /\ cells = <<>>
    /\ clast = <<>>

\* the variables of the disk vector, the segment and the toolchain while
\* none of them exists
OthIdle ==
    /\ dvec = <<>>
    /\ segm = <<>>
    /\ auth = <<>>

ExtIdle == SplIdle /\ CellIdle /\ OthIdle

VecInit ==
    /\ elemSize \in ElemSizes
    /\ blockSize \in {s \in InitSizes : (s - WordSize) % elemSize = 0}
    /\ lenWord = 0
    /\ mem = [i \in 1..MemSlots |-> 0]
    /\ live = TRUE
    /\ fault = FALSE
    /\ vfile = NoFile
    /\ drain = NoDrain
    /\ last = Rec("new", 0, <<>>)
    /\ shadow = <<>>
    /\ mode = "pushes"

Init == VecInit /\ BlkIdle /\ ExtIdle

\* the vector can be used: it exists, no Drain borrows it, nothing faulted
Usable == live /\ ~fault /\ ~drain.active

\* an access outside the arena's bytes has faulted: the process is gone
Fault ==
    /\ fault' = TRUE
    /\ last' = Rec("fault", 0, <<>>)
    /\ UNCHANGED <<elemSize, blockSize, lenWord, mem, live, vfile,
                   drain, shadow, mode>>

\* push(value)
Push(v) ==
    /\ Usable
    /\ lenWord < MaxLen
    /\ LET newSize == GrowLoop(blockSize, lenWord, elemSize)
           grown == newSize # blockSize
           m1 == IF grown THEN Remap(mem, blockSize, elemSize) ELSE mem
       IN \/ /\ blockSize' = newSize
             /\ mem' = [m1 EXCEPT ![lenWord + 1] = v]
             /\ lenWord' = lenWord + 1
             /\ last' = [Rec("push", 0, <<v>>) EXCEPT !.ok = grown]
             /\ IF lenWord = 0 \/ mode = "pushes"
                THEN /\ mode' = "pushes"
                     /\ shadow' = IF lenWord = 0 THEN <<v>> ELSE Append(shadow, v)
                ELSE /\ mode' = "other"
                     /\ shadow' = <<>>
             /\ UNCHANGED <<elemSize, live, fault, vfile, drain>>
          \/ /\ ~SlotInArena(lenWord + 1, newSize, elemSize)
             /\ Fault
    /\ UNCHANGED <<blkVars, extVars>>

\* pop()
Pop ==
    /\ Usable
    /\ IF lenWord > 0
       THEN \/ LET r == PopAt(mem, lenWord)
               IN /\ lenWord' = r.len
                  /\ mem' = r.mem
                  /\ last' = Rec("pop", 0, <<r.out>>)
                  /\ IF mode \in {"pushes", "pops"} /\ shadow # <<>>
                     THEN /\ mode' = "pops"
                          /\ shadow' = SubSeq(shadow, 1, Len(shadow) - 1)
                     ELSE /\ mode' = "other"
                          /\ shadow' = <<>>
                  /\ UNCHANGED <<elemSize, blockSize, live, fault,
                                 vfile, drain>>
            \/ /\ ~SlotInArena(lenWord, blockSize, elemSize)
               /\ Fault
       ELSE LET r == PopEmpty(mem, lenWord)
            IN /\ lenWord' = r.len
               /\ mem' = r.mem
               /\ last' = Rec("pop", 0, r.out)
               /\ mode' = "other"
               /\ shadow' = <<>>
               /\ UNCHANGED <<elemSize, blockSize, live, fault, vfile,
                              drain>>
    /\ UNCHANGED <<blkVars, extVars>>

\* remove(index)
Remove(index) ==
    /\ Usable
    /\ IF OutOfBounds(index, lenWord)
       THEN \* panic!("index must not >= len")
            /\ last' = Rec("remove_panic", index, <<>>)
            /\ mode' = "other"
            /\ shadow' = <<>>
            /\ UNCHANGED <<elemSize, blockSize, lenWord, mem, live,
                           fault, vfile, drain>>
       ELSE \/ LET r == RemoveAt(mem, lenWord, index)
               IN /\ lenWord' = r.len
                  /\ mem' = r.mem
                  /\ last' = Rec("remove", index, <<r.out>>)
                  /\ mode' = "other"
                  /\ shadow' = <<>>
                  /\ UNCHANGED <<elemSize, blockSize, live, fault,
                                 vfile, drain>>
            \/ /\ ~SlotInArena(lenWord, blockSize, elemSize)
               /\ Fault
    /\ UNCHANGED <<blkVars, extVars>>

\* clear(): pop until None
Clear ==
    /\ Usable
    /\ \/ LET r == ClearLoop(mem, lenWord)
          IN /\ lenWord' = r.len
             /\ mem' = r.mem
             /\ last' = Rec("clear", 0, <<>>)
             /\ mode' = "other"
             /\ shadow' = <<>>
             /\ UNCHANGED <<elemSize, blockSize, live, fault, vfile,
                            drain>>
       \/ /\ lenWord > 0
          /\ ~SlotInArena(lenWord, blockSize, elemSize)
          /\ Fault
    /\ UNCHANGED <<blkVars, extVars>>

\* retain(predicate), the predicate accepting exactly the values in keep
Retain(keep) ==
    /\ Usable
    /\ \/ LET r == RetainFrom(mem, lenWord, lenWord - 1, keep, <<>>)
          IN /\ lenWord' = r.len
             /\ mem' = r.mem
             /\ last' = [Rec("retain", keep, <<lenWord>>) EXCEPT
                          !.ok = (r.evals = Reverse(Slice(mem, lenWord)))]
             /\ mode' = "other"
             /\ shadow' = <<>>
             /\ UNCHANGED <<elemSize, blockSize, live, fault, vfile,
                            drain>>
       \/ /\ lenWord > 0
          /\ ~SlotInArena(lenWord, blockSize, elemSize)
          /\ Fault
    /\ UNCHANGED <<blkVars, extVars>>

\* reserve(capacity): block.reserve(capacity * T::size())
Reserve(n) ==
    /\ Usable
    /\ blockSize + n * elemSize <= MaxBlockSize
    /\ blockSize' = BlockReserve(blockSize, n * elemSize)
    /\ mem' = Remap(mem, blockSize, elemSize)
    /\ last' = Rec("reserve", 0, <<>>)
    /\ mode' = "other"
    /\ shadow' = <<>>
    /\ UNCHANGED <<elemSize, lenWord, live, fault, vfile, drain>>
    /\ UNCHANGED <<blkVars, extVars>>

-----------------------------------------------------------------------------
\* Drain

\* a RangeBounds<usize> bound
Bounds == {NoBound}
          \cup {[kind |-> k, i |-> i] : k \in {"Included", "Excluded"},
                                         i \in 0..MaxLen}

\* Drain::new: the start bound
StartOf(b) == CASE b.kind = "Included" -> b.i
                [] b.kind = "Excluded" -> b.i + 1
                [] OTHER -> 0

\* an end bound that takes an excluded end as if it were included
EndOfNoDecrement(b, len) == CASE b.kind = "Included" -> b.i
                              [] b.kind = "Excluded" -> b.i
                              [] OTHER -> len - 1

\* Drain::new: the end bound before any wrap; a negative result is a usize
\* subtraction that underflowed
EndOf(b, len) == CASE b.kind = "Included" -> b.i
                   [] b.kind = "Excluded" -> b.i - 1
                   [] OTHER -> len - 1

\* drain(range) = Drain::new(self, range)
DrainNew(sb, eb) ==
    /\ Usable
    /\ LET start == StartOf(sb)
           end == EndOf(eb, lenWord)
           panic(msg) ==
               /\ last' = Rec(msg, 0, <<>>)
               /\ UNCHANGED <<lenWord, mem, drain>>
       IN IF end < 0
          THEN \* overflow checks on: the subtraction panics; off: end wraps
               \* to usize::MAX, which is >= len for every len
               \/ panic("drain_panic_overflow")
               \/ panic("drain_panic_end")
          ELSE IF start > end THEN panic("drain_panic_start")
          ELSE IF end >= lenWord THEN panic("drain_panic_end")
          ELSE /\ drain' = [active |-> TRUE, start |-> start,
                            count |-> (end + 1) - start, removed |-> 0,
                            sb |-> sb, eb |-> eb,
                            pre |-> Slice(mem, lenWord), out |-> <<>>]
               /\ last' = Rec("drain", 0, <<>>)
               /\ UNCHANGED <<lenWord, mem>>
    /\ mode' = "other"
    /\ shadow' = <<>>
    /\ UNCHANGED <<elemSize, blockSize, live, fault, vfile>>
    /\ UNCHANGED <<blkVars, extVars>>

\* Drain::next
DrainNext ==
    /\ live /\ ~fault /\ drain.active
    /\ IF drain.removed < drain.count
       THEN IF OutOfBounds(drain.start, lenWord)
            THEN \* Vec::remove panics
                 /\ last' = Rec("remove_panic", drain.start, <<>>)
                 /\ drain' = [drain EXCEPT !.removed = @ + 1]
                 /\ UNCHANGED <<lenWord, mem, fault, elemSize, blockSize, live, vfile, shadow, mode>>
            ELSE \/ LET r == RemoveAt(mem, lenWord, drain.start)
                    IN /\ lenWord' = r.len
                       /\ mem' = r.mem
                       /\ drain' = [drain EXCEPT !.removed = @ + 1,
                                                 !.out = Append(@, r.out)]
                       /\ last' = Rec("drain_next", 0, <<r.out>>)
                       /\ UNCHANGED <<fault, elemSize, blockSize,
                                      live, vfile, shadow, mode>>
                 \/ /\ ~SlotInArena(lenWord, blockSize, elemSize)
                    /\ Fault
       ELSE /\ last' = Rec("drain_next", 0, <<>>)
            /\ UNCHANGED <<lenWord, mem, drain, fault, elemSize, blockSize, live, vfile, shadow, mode>>
    /\ UNCHANGED <<blkVars, extVars>>

\* a drop that leaves the rest of the range in the vector
DrainRestNothing(m, len, start, k) == [mem |-> m, len |-> len]

\* the loop of Drain::drop: next() until it returns None
RECURSIVE DrainRest(_, _, _, _)
DrainRest(m, len, start, k) ==
    IF k <= 0 THEN [mem |-> m, len |-> len]
    ELSE LET r == RemoveAt(m, len, start)
         IN DrainRest(r.mem, r.len, start, k - 1)

\* Drop for Drain
DrainDrop ==
    /\ live /\ ~fault /\ drain.active
    \* remove(start) cannot panic here: Drain::new checked end < len
    /\ drain.start + (drain.count - drain.removed) <= lenWord
    /\ \/ LET r == DrainRest(mem, lenWord, drain.start,
                             drain.count - drain.removed)
          IN /\ lenWord' = r.len
             /\ mem' = r.mem
             /\ drain' = NoDrain
             /\ last' = Rec("drain_drop", drain.removed, <<drain.count>>)
             /\ UNCHANGED <<fault, elemSize, blockSize, live, vfile,
                            shadow, mode>>
       \/ /\ drain.removed < drain.count
          /\ ~SlotInArena(lenWord, blockSize, elemSize)
          /\ Fault
    /\ UNCHANGED <<blkVars, extVars>>

-----------------------------------------------------------------------------
\* Dropping the vector and reopening its backing file

\* assert_can_contain::<usize>()
AssertCanContain(size) == size >= WordSize

\* Drop for PersistentVec / Block: the arena's bytes are flushed to the file
DropVec ==
    /\ Usable
    /\ live' = FALSE
    /\ vfile' = [size |-> blockSize, len |-> lenWord,
                 slots |-> Remap(mem, blockSize, elemSize)]
    /\ last' = Rec("drop", 0, <<>>)
    /\ mode' = "other"
    /\ shadow' = <<>>
    /\ UNCHANGED <<elemSize, blockSize, lenWord, mem, fault, drain>>
    /\ UNCHANGED <<blkVars, extVars>>

\* a block built on the existing file with no size given (the file's full
\* length is mapped), then PersistentVec::new on it
Reopen ==
    /\ ~live /\ ~fault
    /\ vfile # NoFile
    /\ AssertCanContain(vfile.size)
    /\ live' = TRUE
    /\ blockSize' = vfile.size
    /\ lenWord' = vfile.len
    /\ mem' = vfile.slots
    /\ vfile' = NoFile   \* from here on the mapping is the file's content
    /\ last' = Rec("reopen", 0, <<>>)
    /\ UNCHANGED <<elemSize, fault, drain, shadow, mode>>
    /\ UNCHANGED <<blkVars, extVars>>

VecNext ==
    \/ \E v \in Values : Push(v)
    \/ Pop
    \/ \E i \in 0..MaxLen : Remove(i)
    \/ Clear
    \/ \E keep \in SUBSET Values : Retain(keep)
    \/ \E n \in 0..MaxReserve : Reserve(n)
    \/ \E sb \in Bounds, eb \in Bounds : DrainNew(sb, eb)
    \/ DrainNext
    \/ DrainDrop
    \/ DropVec
    \/ Reopen

Next == VecNext

Spec == Init /\ [][Next]_vars

-----------------------------------------------------------------------------
\* Block, BlockBuilder and the OPEN_PATHS registry (persist/block.rs)

\* the most threads building and dropping blocks at once
MaxThreads == 2
\* the largest capacity (in elements) a block is built with or reserved to
MaxCap == 2

Threads == 1..MaxThreads
Paths == {"p"}
NoPath == "none"
NoCap == -1
\* size_of::<T>() of the block's element type
TSizes == {1, 2}
Bytes == {0, 1}
Missing == <<-1>>   \* no file at the path

NoBlock == [state |-> "none", path |-> NoPath, tsize |-> 0, capacity |-> 0,
            size |-> 0, bytes |-> <<>>]
NoReq == [path |-> NoPath, cap |-> NoCap, tsize |-> 0]
\* BlockBuilder: disk_path, capacity and the element type
Builders == [path : Paths \cup {NoPath}, cap : {NoCap} \cup (0..MaxCap),
             tsize : TSizes]

\* the builders that name a backing path
PathBuilders == {b \in Builders : b.path # NoPath}

Zeros(n) == [i \in 1..n |-> 0]

\* a count of bytes that ignores the element's size
SizeOfOne(tsize, count) == count

\* size_of::<T>(count): the bytes needed for count values of T
SizeOf(tsize, count) == tsize * count

\* a builder without capacity that is refused only when it is anonymous
NeedsCapacityAnon(b, exists) == b.cap = NoCap /\ b.path = NoPath

\* build's match on self.capacity: no capacity given and no file to infer it
\* from
NeedsCapacity(b, exists) == b.cap = NoCap /\ ~exists

\* a set_len that discards what the file held
SetLenZeroed(f, n) == [i \in 1..n |-> 0]

\* a registry that never finds a path taken
PathTakenNever(paths, p) == FALSE

\* guard.contains(path)
PathTaken(paths, p) == p \in paths

\* guard.insert(path)
RegistryInsert(paths, p) == paths \cup {p}

\* a drop that leaves the path in the registry
RegistryKeep(paths, p) == paths

\* guard.remove(path)
RegistryRemove(paths, p) == paths \ {p}

\* file.set_len(n): truncate, or extend with zero bytes
SetLen(f, n) == [i \in 1..n |-> IF i <= Len(f) THEN f[i] ELSE 0]

\* a create_mmap that maps the file at the length it finds
CreateMmapNoResize(space_req, f) == IF f = Missing THEN <<>> ELSE f

\* create_mmap: the file's content once it is opened (created when missing)
\* and its length made space_req
CreateMmap(space_req, f) ==
    LET opened == IF f = Missing THEN <<>> ELSE f
    IN IF Len(opened) # space_req THEN SetLen(opened, space_req) ELSE opened

\* a live block (not yet in drop) on path p, held by a thread other than t
HeldByOther(t, p) ==
    \E u \in Threads \ {t} : blocks[u].state = "live" /\ blocks[u].path = p

BlkInit ==
    /\ openPaths = {}
    /\ files = [p \in Paths |-> Missing]
    /\ blocks = [t \in Threads |-> NoBlock]
    /\ pc = [t \in Threads |-> "idle"]
    /\ req = [t \in Threads |-> NoReq]
    /\ blast = [op |-> "none", t |-> 0, path |-> NoPath, res |-> "none",
                held |-> FALSE]

BLast(op, t, path, res, held) ==
    [op |-> op, t |-> t, path |-> path, res |-> res, held |-> held]

\* build(), its first block: the registry check and insert under the mutex
BuildCheck(t, b) ==
    /\ pc[t] = "idle" /\ blocks[t].state = "none"
    /\ IF b.path # NoPath /\ PathTaken(openPaths, b.path)
       THEN \* Err(PathAlreadyOpened)
            /\ blast' = BLast("build", t, b.path, "PathAlreadyOpened",
                              HeldByOther(t, b.path))
            /\ UNCHANGED <<openPaths, pc, req>>
       ELSE /\ openPaths' = IF b.path # NoPath
                            THEN RegistryInsert(openPaths, b.path)
                            ELSE openPaths
            /\ pc' = [pc EXCEPT ![t] = "build"]
            /\ req' = [req EXCEPT ![t] = b]
            /\ blast' = BLast("check", t, b.path, "passed",
                              b.path # NoPath /\ HeldByOther(t, b.path))
    /\ UNCHANGED <<files, blocks>>
    /\ UNCHANGED <<vecVars, extVars>>

\* build(), the rest: the capacity, the mapping, the Block
BuildFinish(t) ==
    /\ pc[t] = "build"
    /\ LET b == req[t]
           exists == b.path # NoPath /\ files[b.path] # Missing
           fail(res) ==
               /\ blast' = BLast("build", t, b.path, res, FALSE)
               /\ UNCHANGED <<files, blocks>>
           capacity == IF b.cap # NoCap THEN b.cap
                       ELSE Len(files[b.path]) \div b.tsize
           space_req == SizeOf(b.tsize, capacity)
       IN /\ IF NeedsCapacity(b, exists)
             THEN fail("MissingCapacity")
             ELSE IF b.path = NoPath
             THEN IF space_req = 0
                  THEN fail("IoError")  \* a mapping must have a non-zero length
                  ELSE /\ blocks' = [blocks EXCEPT ![t] =
                             [state |-> "live", path |-> NoPath,
                              tsize |-> b.tsize, capacity |-> capacity,
                              size |-> space_req, bytes |-> Zeros(space_req)]]
                       /\ blast' = BLast("build", t, b.path, "Ok", FALSE)
                       /\ UNCHANGED files
             ELSE /\ files' = [files EXCEPT ![b.path] = CreateMmap(space_req, @)]
                  /\ IF space_req = 0
                     THEN /\ blast' = BLast("build", t, b.path, "IoError", FALSE)
                          /\ UNCHANGED blocks
                     ELSE /\ blocks' = [blocks EXCEPT ![t] =
                                [state |-> "live", path |-> b.path,
                                 tsize |-> b.tsize, capacity |-> capacity,
                                 size |-> space_req, bytes |-> <<>>]]
                          /\ blast' = BLast("build", t, b.path, "Ok", FALSE)
          /\ pc' = [pc EXCEPT ![t] = "idle"]
          /\ req' = [req EXCEPT ![t] = NoReq]
    /\ UNCHANGED openPaths
    /\ UNCHANGED <<vecVars, extVars>>

\* the bytes a live block's mapping shows: its own pages when anonymous, the
\* file's (a shared mapping) when path-backed
BlockBytes(t) ==
    IF blocks[t].path = NoPath THEN blocks[t].bytes
    ELSE SubSeq(files[blocks[t].path], 1, blocks[t].size)

\* a store through as_mut_ptr() / as_mut() at byte offset off (1-based)
WriteByte(t, off, v) ==
    /\ pc[t] = "idle" /\ blocks[t].state = "live"
    /\ off <= blocks[t].size
    /\ IF blocks[t].path = NoPath
       THEN /\ blocks' = [blocks EXCEPT ![t].bytes[off] = v]
            /\ UNCHANGED files
       ELSE /\ off <= Len(files[blocks[t].path])
            /\ files' = [files EXCEPT ![blocks[t].path][off] = v]
            /\ UNCHANGED blocks
    /\ blast' = BLast("write", t, blocks[t].path, "Ok", FALSE)
    /\ UNCHANGED <<openPaths, pc, req>>
    /\ UNCHANGED <<vecVars, extVars>>

\* reserve(additional)
BlockGrow(t, additional) ==
    /\ pc[t] = "idle" /\ blocks[t].state = "live"
    /\ blocks[t].capacity + additional <= MaxCap
    /\ LET blk == blocks[t]
           new == SizeOf(blk.tsize, additional + blk.capacity)
       IN IF blk.path = NoPath
          THEN /\ blocks' = [blocks EXCEPT ![t] =
                     [blk EXCEPT !.bytes = blk.bytes \o Zeros(new - blk.size),
                                 !.capacity = blk.capacity + additional,
                                 !.size = new]]
               /\ UNCHANGED files
          ELSE /\ files' = [files EXCEPT ![blk.path] = CreateMmap(new, @)]
               /\ blocks' = [blocks EXCEPT ![t] =
                     [blk EXCEPT !.capacity = blk.capacity + additional,
                                 !.size = new]]
    /\ blast' = BLast("reserve", t, blocks[t].path, "Ok", FALSE)
    /\ UNCHANGED <<openPaths, pc, req>>
    /\ UNCHANGED <<vecVars, extVars>>

\* Drop for Block, first half: the path leaves the registry
DropRelease(t) ==
    /\ pc[t] = "idle" /\ blocks[t].state = "live"
    /\ openPaths' = IF blocks[t].path # NoPath
                    THEN RegistryRemove(openPaths, blocks[t].path)
                    ELSE openPaths
    /\ blocks' = [blocks EXCEPT ![t].state = "dropping"]
    /\ blast' = BLast("release", t, blocks[t].path, "Ok", FALSE)
    /\ UNCHANGED <<files, pc, req>>
    /\ UNCHANGED <<vecVars, extVars>>

\* Drop for Block, second half: mem_map.flush(), then the mapping is unmapped
DropFlush(t) ==
    /\ blocks[t].state = "dropping"
    /\ blocks' = [blocks EXCEPT ![t] = NoBlock]
    /\ blast' = BLast("drop", t, blocks[t].path, "Ok", FALSE)
    /\ UNCHANGED <<openPaths, files, pc, req>>
    /\ UNCHANGED <<vecVars, extVars>>

BlkNext ==
    \/ \E t \in Threads, b \in PathBuilders : BuildCheck(t, b)
    \/ \E t \in Threads : BuildFinish(t)
    \/ \E t \in Threads, off \in 1..(2 * MaxCap), v \in Bytes : WriteByte(t, off, v)
    \/ \E t \in Threads, n \in 1..MaxCap : BlockGrow(t, n)
    \/ \E t \in Threads : DropRelease(t)
    \/ \E t \in Threads : DropFlush(t)

InitBlock == BlkInit /\ VecIdle /\ ExtIdle

\* threads building, writing, growing and dropping blocks on one backing path
SpecBlock == InitBlock /\ [][BlkNext]_vars

-----------------------------------------------------------------------------
\* Properties of PersistentVec, checked under Spec

\* q without its elements at the 0-based indices a..b
WithoutRange(q, a, b) == SubSeq(q, 1, a) \o SubSeq(q, b + 2, Len(q))

\* a range's inclusive bounds on a vector of length len
NormStart(b) == IF b.kind = "Excluded" THEN b.i + 1
                ELSE IF b.kind = "Included" THEN b.i ELSE 0
NormEnd(b, len) == IF b.kind = "Excluded" THEN b.i - 1
                   ELSE IF b.kind = "Included" THEN b.i ELSE len - 1

\* C1: after any sequence of operations the elements fit the arena:
\* len * size_of::<T>() <= arena.size() - header_size, for every element size.
C1_LenFitsArena == lenWord * elemSize <= blockSize - WordSize

\* C2: in a run of n pushes onto an empty vector followed by pops, every pop
\* returns the most recently pushed value not yet popped, and after the n-th
\* pop len() is 0.
C2_PushPopLifo ==
    [][(last'.op = "pop" /\ mode' = "pops")
         => /\ last'.ret = <<shadow[Len(shadow)]>>
            /\ (shadow' = <<>> => lenWord' = 0)]_vars

\* C3: push(v) on a vector of length n leaves len = n + 1, element n equal to
\* v and every element below n as it was, whether or not the arena grew.
C3_PushKeepsElements ==
    [][last'.op = "push"
         => /\ lenWord' = lenWord + 1
            /\ mem'[lenWord + 1] = last'.ret[1]
            /\ \A i \in 1..lenWord : mem'[i] = mem[i]]_vars

\* C4: remove(i) with i < len returns the element at i, decrements len and
\* keeps the other elements in order (those after i move down by one), also
\* when i is the last index.
C4_RemoveShifts ==
    [][last'.op = "remove"
         => /\ last'.arg < lenWord
            /\ last'.ret = <<mem[last'.arg + 1]>>
            /\ lenWord' = lenWord - 1
            /\ Slice(mem', lenWord')
                 = WithoutRange(Slice(mem, lenWord), last'.arg, last'.arg)]_vars

\* a remove at an inner index with at least two elements behind it has acted
C4_Witness == last.op = "remove" /\ last.arg >= 1 /\ lenWord >= last.arg + 2

\* C5: after retain(p) the vector holds exactly the elements p accepts, in
\* their original order, len() is their count, and the scan gave p every
\* element exactly once, from the last to the first.
C5_RetainKeepsAccepted ==
    [][last'.op = "retain"
         => LET kept == SelectSeq(Slice(mem, lenWord),
                                  LAMBDA v : v \in last'.arg)
            IN /\ Slice(mem', lenWord') = kept
               /\ lenWord' = Len(kept)
               /\ last'.ok]_vars

\* a retain that removed at least two elements and kept at least two
C5_Witness ==
    last.op = "retain" /\ lenWord >= 2 /\ last.ret[1] >= lenWord + 2

\* C6: for a valid range with inclusive bounds [start, end], the k-th item
\* drain yields is the element at start + k - 1, and once the range is fully
\* iterated the vector holds the elements outside the range, in order.
C6_DrainYieldsRange ==
    drain.active =>
        LET start == NormStart(drain.sb)
            end == NormEnd(drain.eb, Len(drain.pre))
        IN /\ start <= end /\ end < Len(drain.pre)
           /\ drain.out = SubSeq(drain.pre, start + 1, start + drain.removed)
           /\ drain.removed <= (end + 1) - start
           /\ (drain.removed = drain.count =>
                 /\ drain.out = SubSeq(drain.pre, start + 1, end + 1)
                 /\ Slice(mem, lenWord) = WithoutRange(drain.pre, start, end))

\* a drain of at least two elements from an inner range, fully iterated
C6_Witness ==
    /\ drain.active /\ drain.removed = drain.count
    /\ drain.count >= 2 /\ drain.start >= 1 /\ lenWord > drain.start
    /\ drain.eb.kind = "Excluded"

\* C7: when the Drain is dropped after yielding k of its items, the whole
\* range is gone: len has decreased by the range's count and the elements
\* outside the range remain, in order.
C7_DrainDropRemovesRange ==
    [][last'.op = "drain_drop"
         => LET start == NormStart(drain.sb)
                end == NormEnd(drain.eb, Len(drain.pre))
            IN /\ lenWord' = Len(drain.pre) - ((end + 1) - start)
               /\ Slice(mem', lenWord') = WithoutRange(drain.pre, start, end)]_vars

\* a Drain dropped after yielding one item with two more left in its range
C7_Witness ==
    last.op = "drain_drop" /\ last.arg = 1 /\ last.ret[1] >= 3 /\ lenWord >= 1

\* C8: a vector dropped and rebuilt on its reopened backing file has the same
\* len() and the same element at every index.
C8_ReopenRoundTrip ==
    [][last'.op = "reopen"
         => /\ lenWord' = lenWord
            /\ Slice(mem', lenWord') = Slice(mem, lenWord)]_vars

\* C25: capacity() is the number of element slots the arena has room for,
\* (arena.size() - header) / size_of::<T>(), for every element size and
\* arena size.
C25_CapacityInSlots ==
    live => Capacity(blockSize) = (blockSize - WordSize) \div elemSize

\* C26: the vector behaves as a std Vec run in lock-step: each push, pop,
\* remove, clear, retain and drain returns what the Vec returns and leaves
\* the element sequence the Vec has.
C26_BehavesAsVec ==
    [][LET v == Slice(mem, lenWord)
           w == Slice(mem', lenWord')
       IN /\ last'.op = "push" => w = Append(v, last'.ret[1])
          /\ last'.op = "pop" =>
               IF v = <<>>
               THEN w = <<>> /\ last'.ret = <<>>
               ELSE /\ w = SubSeq(v, 1, Len(v) - 1)
                    /\ last'.ret = <<v[Len(v)]>>
          /\ last'.op = "remove" =>
               /\ w = WithoutRange(v, last'.arg, last'.arg)
               /\ last'.ret = <<v[last'.arg + 1]>>
          /\ last'.op = "clear" => w = <<>>
          /\ last'.op = "retain" =>
               w = SelectSeq(v, LAMBDA x : x \in last'.arg)
          /\ last'.op = "drain_next" /\ last'.ret # <<>> =>
               /\ w = WithoutRange(v, drain.start, drain.start)
               /\ last'.ret = <<v[drain.start + 1]>>
          /\ last'.op = "drain_drop" =>
               w = WithoutRange(v, drain.start,
                                drain.start + (drain.count - drain.removed) - 1)]_vars

\* C27: pop() on a vector of length 0 returns None and leaves len and the
\* arena as they were; a vector made on a fresh zero-filled arena has length
\* 0 and an empty slice.
C27_PopOnEmpty ==
    [][/\ (last'.op = "pop" /\ lenWord = 0) =>
            /\ last'.ret = <<>>
            /\ lenWord' = 0
            /\ mem' = mem
            /\ blockSize' = blockSize
       /\ last.op = "new" => lenWord = 0 /\ Slice(mem, lenWord) = <<>>]_vars

\* pop has returned None on an emptied vector whose arena still holds the
\* bytes of an earlier element
C27_Witness ==
    last.op = "pop" /\ last.ret = <<>> /\ lenWord = 0 /\ mem[1] # 0

\* C28: remove(index) panics exactly when index >= len, an empty vector
\* included, and at the panic len and every element are as they were.
C28_RemoveOutOfBoundsPanics ==
    [][last'.op \in {"remove", "remove_panic"} =>
         /\ last'.op = "remove_panic" <=> last'.arg >= lenWord
         /\ last'.op = "remove_panic" =>
              /\ lenWord' = lenWord
              /\ mem' = mem
              /\ blockSize' = blockSize]_vars

\* remove(len) has panicked on a vector of at least two elements
C28_Witness ==
    last.op = "remove_panic" /\ last.arg = lenWord /\ lenWord >= 2 /\ mem[1] # 0

\* the range sb..eb, normalised to inclusive bounds, is not inside a vector
\* of length len
BadRange(sb, eb, len) ==
    NormStart(sb) > NormEnd(eb, len) \/ NormEnd(eb, len) >= len

\* C29: drain(range) panics with one of its two bound-violation panics and
\* leaves the vector unchanged whenever the normalised range has start > end
\* or end >= len, which covers every range on an empty vector and every
\* exclusive end bound of 0; no subtraction underflows on the way.
C29_DrainBadRangePanics ==
    [][\A sb \in Bounds, eb \in Bounds :
         (DrainNew(sb, eb) /\ BadRange(sb, eb, lenWord)) =>
            /\ last'.op \in {"drain_panic_start", "drain_panic_end"}
            /\ lenWord' = lenWord /\ mem' = mem /\ ~drain'.active]_vars

\* the element slots an arena of `size` bytes has room for
Slots(size, sz) == (size - WordSize) \div sz

\* C31: push grows the arena if and only if len + 1 elements do not fit the
\* slots it has; when it grows, the new byte capacity is at least twice the
\* old one and holds the pushed element.
C31_PushGrowsWhenNeeded ==
    [][last'.op = "push" =>
         /\ blockSize' # blockSize <=> lenWord + 1 > Slots(blockSize, elemSize)
         /\ blockSize' # blockSize =>
              /\ blockSize' - WordSize >= 2 * (blockSize - WordSize)
              /\ lenWord + 1 <= Slots(blockSize', elemSize)]_vars

\* the operations that only take elements out
Removals ==
    {"pop", "remove", "remove_panic", "clear", "retain", "drain",
     "drain_next", "drain_drop"}

\* C35: no vector operation shrinks the arena: pop, remove, retain, drain and
\* clear leave its size as it was, push and reserve never decrease it, and
\* clear leaves len() = 0.
C35_ArenaNeverShrinks ==
    [][/\ blockSize' >= blockSize
       /\ last'.op \in Removals => blockSize' = blockSize
       /\ last'.op = "clear" => lenWord' = 0]_vars

\* clear has emptied a vector of at least three elements in an arena that
\* push had grown
C35_Witness ==
    /\ last.op = "clear" /\ lenWord = 0
    /\ mem[3] # 0
    /\ blockSize > MaxBlockSize - 2

-----------------------------------------------------------------------------
\* Properties of Block and the registry, checked under SpecBlock

\* the threads that hold path p: a live block on it, or a build past the
\* registry check
Holders(p) ==
    {t \in Threads : \/ blocks[t].state = "live" /\ blocks[t].path = p
                     \/ pc[t] = "build" /\ req[t].path = p}

\* C9: at most one live arena exists per backing path, its path is in the
\* registry, and a build on a path held by a live arena returns
\* Err(PathAlreadyOpened), also when threads build concurrently.
C9_OneLiveBlockPerPath ==
    /\ \A p \in Paths : Cardinality(Holders(p)) <= 1
    /\ \A p \in Paths : Holders(p) # {} => p \in openPaths
    /\ (blast.held => blast.res = "PathAlreadyOpened")

\* a build was rejected while another thread held a live block on the path
C9_Witness ==
    /\ blast.op = "build" /\ blast.res = "PathAlreadyOpened" /\ blast.held
    /\ \E u \in Threads \ {blast.t} :
          blocks[u].state = "live" /\ blocks[u].path = blast.path

\* the bytes a build asks for on a file f
SizeRequested(b, f) ==
    IF b.cap = NoCap THEN b.tsize * (Len(f) \div b.tsize) ELSE b.tsize * b.cap

\* thread t's step is the first half of a drop of a path-backed block
IsRelease(t) ==
    /\ blocks[t].state = "live" /\ blocks'[t].state = "dropping"
    /\ blocks[t].path # NoPath

\* thread t's step finishes a build that maps at least one byte of a file that
\* an earlier arena left at the path
IsRebuild(t) ==
    /\ pc[t] = "build" /\ pc'[t] = "idle"
    /\ req[t].path # NoPath
    /\ files[req[t].path] # Missing
    /\ Len(files[req[t].path]) > 0
    /\ SizeRequested(req[t], files[req[t].path]) > 0

\* C10 as stated: the drop takes the path out of the registry, and every later
\* build on the path succeeds and observes the bytes the first arena wrote.
C10_RebuildSeesAllBytes ==
    [][\A t \in Threads :
         /\ IsRelease(t) => blocks[t].path \notin openPaths'
         /\ IsRebuild(t) =>
              LET old == files[req[t].path]
              IN /\ blast'.res = "Ok"
                 /\ blocks'[t].state = "live"
                 /\ Len(BlockBytes(t)') >= Len(old)
                 /\ \A i \in 1..Len(old) : BlockBytes(t)'[i] = old[i]]_vars

\* C10, amended: the drop takes the path out of the registry, and a later
\* build on the path that maps at least as many bytes as the file holds
\* succeeds and observes every byte the first arena wrote.
C10_RebuildSeesBytesItMaps ==
    [][\A t \in Threads :
         /\ IsRelease(t) => blocks[t].path \notin openPaths'
         /\ (IsRebuild(t) /\ SizeRequested(req[t], files[req[t].path])
                               >= Len(files[req[t].path])) =>
              LET old == files[req[t].path]
              IN /\ blast'.res = "Ok"
                 /\ blocks'[t].state = "live"
                 /\ Len(BlockBytes(t)') >= Len(old)
                 /\ \A i \in 1..Len(old) : BlockBytes(t)'[i] = old[i]]_vars

\* a build has just succeeded on a file that holds a byte an earlier, now
\* fully dropped, arena wrote
C10_Witness ==
    /\ blast.op = "build" /\ blast.res = "Ok" /\ blast.path # NoPath
    /\ blocks[blast.t].state = "live"
    /\ \A u \in Threads \ {blast.t} : blocks[u].state = "none"
    /\ \E i \in 1..Len(files[blast.path]) : files[blast.path][i] = 1

\* thread t's build, past the registry check, returns an error in this step
IsFailedBuild(t) ==
    /\ pc[t] = "build" /\ pc'[t] = "idle"
    /\ blast'.op = "build" /\ blast'.t = t
    /\ blast'.res \in {"MissingCapacity", "IoError"}

\* C30: only a successful open records a path in the registry: when a build
\* on a path fails with MissingCapacity or an I/O error the path is not in
\* the registry afterwards, and a build is rejected with PathAlreadyOpened
\* only while some thread holds the path.
C30_FailedBuildNotRecorded ==
    [][/\ \A t \in Threads :
            (IsFailedBuild(t) /\ req[t].path # NoPath) =>
               req[t].path \notin openPaths'
       /\ (blast'.op = "build" /\ blast'.res = "PathAlreadyOpened") =>
            Holders(blast'.path) # {}]_vars

-----------------------------------------------------------------------------
\* SplitMut (persist/persisted_vec.rs)

\* the longest vector a SplitMut is taken over
MaxSplitLen == 2
\* read is not called once this many read grants have been issued, counting
\* the reads that are under way
MaxReaders == 2

SplitSizes == {1, 2}
\* the indexes read and write are called with; the largest is out of range
Indexes == 0..MaxSplitLen

\* SplitMut::split_count: ceil(len / split_size)
split_count(len, split_size) ==
    LET start == len \div split_size
    IN IF len % split_size = 0 THEN start ELSE start + 1

Chunks == 0..(split_count(split.len, split.split_size) - 1)

\* lower < self.get_source().len()
InRange(index) == index * split.split_size < split.len

\* the threads inside read
Reading == {t \in Threads : spc[t] = "read"}

\* the read grants issued on the chunks from c on
RECURSIVE ReadsIssued(_)
ReadsIssued(c) ==
    IF c \notin Chunks THEN 0
    ELSE (IF split.access[c] < 0 THEN -split.access[c] ELSE 0)
         + ReadsIssued(c + 1)

\* the closure of read's fetch_update: a state v <= 0 may become v - 1
ReadAllowed(v) == v <= 0

\* a write that is granted whenever no writer holds the chunk
WriteAllowedShared(acc, index) == acc[index] <= 0

\* a write that is granted only when every chunk is free
WriteAllowedAllFree(acc, index) == \A j \in DOMAIN acc : acc[j] = 0

\* the test of write's compare_exchange(0, 1)
WriteAllowed(acc, index) == acc[index] = 0

\* a failed compare_exchange that stores the new value all the same
CasFailedStores(cur) == 1

\* compare_exchange(0, 1) failing on the state cur: nothing is stored
CasFailed(cur) == cur

\* a retry that keeps the value it saw first
ReloadStale(seen, cur) == seen

\* fetch_update after a failed compare-exchange: the closure is applied to
\* the value the compare-exchange found
Reload(seen, cur) == cur

NoHold == [r |-> 0, w |-> 0]
NoSReq == [index |-> 0, seen |-> 0]

\* let lower = index * self.split_size
Lower(index) == index * split.split_size

\* an upper end that is not cut off at the vector's length
UpperUncut(index) == (index + 1) * split.split_size

\* let upper = len.min((index + 1) * self.split_size)
Upper(index) ==
    IF split.len <= (index + 1) * split.split_size
    THEN split.len ELSE (index + 1) * split.split_size

\* &src[lower..upper], as the vector indexes the slice covers, in order
ChunkSlice(index) ==
    [j \in 1..(Upper(index) - Lower(index)) |-> Lower(index) + j - 1]

\* the last call: its result, and the slice it returned if it returned one
SLast(op, index, res) ==
    [op |-> op, index |-> index, res |-> res,
     slice |-> IF res = "Some" THEN ChunkSlice(index) ELSE <<>>,
     count |-> 0]

\* the last call, for a call that returned a number of chunks
SCount(op, n) == [SLast(op, 0, "count") EXCEPT !.count = n]

\* SplitMut::new over a vector of some length: every access state is 0
SplitInit ==
    /\ \E len \in 0..MaxSplitLen, ss \in SplitSizes :
          /\ split = [len |-> len, split_size |-> ss,
                      access |-> [c \in 0..(split_count(len, ss) - 1) |-> 0]]
          /\ holds = [c \in 0..(split_count(len, ss) - 1) |-> NoHold]
    /\ spc = [t \in Threads |-> "idle"]
    /\ sreq = [t \in Threads |-> NoSReq]
    /\ slast = SLast("new", 0, "none")

\* read(index) returns Some: one more slice of the chunk is held
ReadGrant(t, index, v) ==
    /\ split' = [split EXCEPT !.access[index] = v - 1]
    /\ holds' = [holds EXCEPT ![index].r = @ + 1]
    /\ slast' = SLast("read", index, "Some")

\* read(index) up to the first load of fetch_update: the range check, the
\* load, and the closure applied to the value loaded
ReadLoad(t, index) ==
    /\ spc[t] = "idle"
    /\ ReadsIssued(0) + Cardinality(Reading) < MaxReaders
    /\ IF InRange(index) /\ ReadAllowed(split.access[index])
       THEN /\ spc' = [spc EXCEPT ![t] = "read"]
            /\ sreq' = [sreq EXCEPT ![t] =
                          [index |-> index, seen |-> split.access[index]]]
            /\ slast' = SLast("load", index, "none")
       ELSE /\ slast' = SLast("read", index, "None")
            /\ UNCHANGED <<spc, sreq>>
    /\ UNCHANGED <<split, holds>>
    /\ UNCHANGED <<vecVars, blkVars, cellVars, othVars>>

\* read(index), the compare-exchange of fetch_update: it stores seen - 1 when
\* the state still is the value seen; otherwise the closure is applied to the
\* value found, and the loop goes on or read returns None
ReadCas(t) ==
    /\ spc[t] = "read"
    /\ LET index == sreq[t].index
           cur == split.access[index]
       IN IF cur = sreq[t].seen
          THEN /\ ReadGrant(t, index, cur)
               /\ spc' = [spc EXCEPT ![t] = "idle"]
               /\ sreq' = [sreq EXCEPT ![t] = NoSReq]
          ELSE IF ReadAllowed(cur)
          THEN /\ sreq' = [sreq EXCEPT ![t].seen = Reload(@, cur)]
               /\ slast' = SLast("retry", index, "none")
               /\ UNCHANGED <<split, holds, spc>>
          ELSE /\ spc' = [spc EXCEPT ![t] = "idle"]
               /\ sreq' = [sreq EXCEPT ![t] = NoSReq]
               /\ slast' = SLast("read", index, "None")
               /\ UNCHANGED <<split, holds>>
    /\ UNCHANGED <<vecVars, blkVars, cellVars, othVars>>

\* write(index): the range check and compare_exchange(0, 1)
Write(t, index) ==
    /\ spc[t] = "idle"
    /\ IF InRange(index) /\ WriteAllowed(split.access, index)
       THEN /\ split' = [split EXCEPT !.access[index] = 1]
            /\ holds' = [holds EXCEPT ![index].w = @ + 1]
            /\ slast' = SLast("write", index, "Some")
       ELSE /\ slast' = SLast("write", index, "None")
            /\ split' = IF InRange(index)
                        THEN [split EXCEPT !.access[index] = CasFailed(@)]
                        ELSE split
            /\ UNCHANGED holds
    /\ UNCHANGED <<spc, sreq>>
    /\ UNCHANGED <<vecVars, blkVars, cellVars, othVars>>

\* a slice obtained from read or write goes out of scope: &[T] and &mut [T]
\* have no destructor, so no access state changes
Release(index, kind) ==
    /\ index \in Chunks
    /\ holds[index][kind] > 0
    /\ holds' = [holds EXCEPT ![index][kind] = @ - 1]
    /\ slast' = SLast("release", index, kind)
    /\ UNCHANGED <<split, spc, sreq>>
    /\ UNCHANGED <<vecVars, blkVars, cellVars, othVars>>

SplitNext ==
    \/ \E t \in Threads, index \in Indexes : ReadLoad(t, index)
    \/ \E t \in Threads : ReadCas(t)
    \/ \E t \in Threads, index \in Indexes : Write(t, index)
    \/ \E index \in Indexes, kind \in {"r", "w"} : Release(index, kind)

InitSplit == SplitInit /\ VecIdle /\ BlkIdle /\ CellIdle /\ OthIdle

\* threads calling read and write on one SplitMut and dropping the slices
SpecSplit == InitSplit /\ [][SplitNext]_vars

\* the same, every thread inside read being scheduled again
SpecSplitFair == SpecSplit /\ \A t \in Threads : WF_vars(ReadCas(t))

-----------------------------------------------------------------------------
\* Properties of SplitMut, checked under SpecSplit

\* the last step was a call of read or write that returned
Returned == slast'.op \in {"read", "write"}

\* C11: under every interleaving no chunk is held by two writers or by a
\* writer and a reader: while a slice from write(i) is held every read(i) and
\* write(i) returns None, and while a slice from read(i) is held every
\* write(i) returns None.
C11_ExclusiveGrants ==
    [][/\ \A c \in Chunks :
            /\ holds'[c].w <= 1
            /\ holds'[c].w = 1 => holds'[c].r = 0
       /\ (Returned /\ slast'.index \in Chunks) =>
            /\ holds[slast'.index].w > 0 => slast'.res = "None"
            /\ (slast'.op = "write" /\ holds[slast'.index].r > 0)
                  => slast'.res = "None"]_vars

\* a read and a write were refused on a chunk while a slice of it was held
\* mutably, resp. shared
C11_Witness ==
    /\ slast.res = "None" /\ slast.index \in Chunks
    /\ \/ slast.op = "read" /\ holds[slast.index].w = 1
       \/ slast.op = "write" /\ holds[slast.index].r = 2

\* C12: while no slice from write(i) is held on an in-range chunk i, every
\* read(i) succeeds whatever the number of read grants, and the chunk's
\* state is minus the number of read grants issued: never positive, and one
\* less after each grant.
C12_ReadsShareChunk ==
    [][\A c \in Chunks :
         holds[c].w = 0 =>
            /\ split.access[c] <= 0
            /\ (slast'.op = "read" /\ slast'.index = c) =>
                  /\ slast'.res = "Some"
                  /\ split'.access[c] = split.access[c] - 1]_vars

\* C13: a read or write on chunk i changes no other chunk's state, and
\* whether it succeeds depends on chunk i's state alone: write succeeds
\* exactly when that state is 0, read exactly when it is not positive.
C13_ChunksIndependent ==
    [][slast'.op \in {"read", "write", "load", "retry"} =>
         LET i == slast'.index
         IN /\ \A c \in Chunks \ {i} : split'.access[c] = split.access[c]
            /\ (Returned /\ i \in Chunks) =>
                 /\ slast'.op = "write" =>
                       (slast'.res = "Some" <=> split.access[i] = 0)
                 /\ slast'.op = "read" =>
                       (slast'.res = "Some" <=> split.access[i] <= 0)]_vars

\* a write and a read were granted on one chunk while a slice of another
\* chunk was held mutably
C13_Witness ==
    /\ slast.res = "Some"
    /\ \E c \in Chunks \ {slast.index} : holds[c].w = 1 /\ split.access[c] = 1

\* C14: once every slice obtained from read(i) or write(i) has gone out of
\* scope the chunk's state is 0 again, so that the next read(i) or write(i)
\* succeeds.
C14_ReleasedChunkIsFree ==
    \A c \in Chunks :
        (holds[c].r = 0 /\ holds[c].w = 0) => split.access[c] = 0

\* C32: a read or write that returns None leaves every chunk's access
\* state as it was, whether a holder stood in its way or the index was out
\* of range; an out-of-range index is answered None without the access
\* array being indexed.
C32_NoneChangesNothing ==
    [][/\ (Returned /\ slast'.res = "None") => split'.access = split.access
       /\ (slast'.op \in {"read", "write", "load"}
             /\ slast'.index \notin DOMAIN split.access) =>
            /\ slast'.res = "None"
            /\ slast'.index * split.split_size >= split.len]_vars

\* a write was refused on a chunk readers hold, after a call with an index
\* past the last chunk could have been made
C32_Witness ==
    /\ slast.op = "write" /\ slast.res = "None"
    /\ slast.index \in Chunks
    /\ split.access[slast.index] < 0 /\ holds[slast.index].r > 0

\* C33: read and write never wait for a holder: every thread inside read
\* leaves it, with Some or None, whatever slices are held and never
\* released, and a write returns in its one step.
C33_CallsReturn ==
    \A t \in Threads : (spc[t] = "read") ~> (spc[t] = "idle")

\* a read came back None because a writer took the chunk between the read's
\* load and its compare-exchange, and the writer still holds its slice
C33_Witness ==
    /\ slast.op = "read" /\ slast.res = "None"
    /\ slast.index \in Chunks
    /\ holds[slast.index].w = 1
    /\ \A t \in Threads : spc[t] = "idle"

-----------------------------------------------------------------------------
\* One thread building anonymous and path-backed blocks (persist/block.rs)

\* the capacity Blocks.new() is documented to give a block
DEFAULT_SEGMENT_SIZE == 16

\* Blocks::builder(): no path and no capacity; with_type sets the element type
Builder(tsize) == [path |-> NoPath, cap |-> NoCap, tsize |-> tsize]

\* Blocks.new::<T>(): builder().with_type::<T>().build().unwrap()
BlocksNew(t, tsize) ==
    /\ pc[t] = "idle" /\ blocks[t].state = "none"
    /\ LET b == Builder(tsize)
       IN IF NeedsCapacity(b, FALSE)
          THEN \* build() is Err(MissingCapacity { is_anon: true }): unwrap panics
               /\ blast' = BLast("new", t, NoPath, "panic", FALSE)
               /\ UNCHANGED blocks
          ELSE /\ blocks' = [blocks EXCEPT ![t] =
                     [state |-> "live", path |-> NoPath, tsize |-> tsize,
                      capacity |-> b.cap, size |-> SizeOf(tsize, b.cap),
                      bytes |-> Zeros(SizeOf(tsize, b.cap))]]
               /\ blast' = BLast("new", t, NoPath, "Ok", FALSE)
    /\ UNCHANGED <<openPaths, files, pc, req>>
    /\ UNCHANGED <<vecVars, extVars>>

ArenaNext ==
    \/ \E b \in Builders : BuildCheck(1, b)
    \/ BuildFinish(1)
    \/ \E tsize \in TSizes : BlocksNew(1, tsize)
    \/ \E off \in 1..(2 * MaxCap), v \in Bytes : WriteByte(1, off, v)
    \/ \E n \in 0..MaxCap : BlockGrow(1, n)
    \/ DropRelease(1)
    \/ DropFlush(1)

InitArena == BlkInit /\ VecIdle /\ ExtIdle

\* one thread building, writing, growing and dropping anonymous and
\* path-backed blocks
SpecArena == InitArena /\ [][ArenaNext]_vars

-----------------------------------------------------------------------------
\* Properties of building and growing a block, checked under SpecArena

\* thread t's step is the second half of build()
IsBuildFinish(t) == pc[t] = "build" /\ pc'[t] = "idle"

\* the builder thread t builds from names a path at which a file exists
FileExists(t) == req[t].path # NoPath /\ files[req[t].path] # Missing

C16_BlocksNewDefault ==
    [][blast'.op = "new" =>
         /\ blast'.res = "Ok"
         /\ blocks'[blast'.t].state = "live"
         /\ blocks'[blast'.t].path = NoPath
         /\ blocks'[blast'.t].capacity = DEFAULT_SEGMENT_SIZE]_vars

\* C17: a block built with an explicit capacity, anonymous or on a path
\* with no file, has size() = capacity * size_of::<T>() and reads as zeros.
C17_NewBlockSizedAndZeroed ==
    [][\A t \in Threads :
         (IsBuildFinish(t) /\ req[t].cap # NoCap /\ ~FileExists(t)
            /\ blast'.res = "Ok") =>
            /\ blocks'[t].state = "live"
            /\ blocks'[t].size = req[t].cap * req[t].tsize
            /\ Len(BlockBytes(t)') = req[t].cap * req[t].tsize
            /\ \A i \in 1..Len(BlockBytes(t)') : BlockBytes(t)'[i] = 0]_vars

\* an anonymous block of MaxCap two-byte elements has just been built
C17_Witness ==
    /\ blast.op = "build" /\ blast.res = "Ok" /\ blast.path = NoPath
    /\ blocks[blast.t].tsize = 2 /\ blocks[blast.t].capacity = MaxCap
    /\ blocks[blast.t].size = 2 * MaxCap

\* C18: a build with no capacity on an existing file maps the file's full
\* length, whatever that length is, and leaves the file's bytes as they were.
C18_OpenMapsWholeFile ==
    [][\A t \in Threads :
         (IsBuildFinish(t) /\ req[t].cap = NoCap /\ FileExists(t)) =>
            /\ blast'.res = "Ok"
            /\ blocks'[t].size = Len(files[req[t].path])
            /\ files'[req[t].path] = files[req[t].path]]_vars

\* thread t's step is a reserve
IsReserve(t) ==
    /\ blast'.op = "reserve" /\ blast'.t = t
    /\ blocks[t].state = "live" /\ blocks'[t].state = "live"
    /\ pc[t] = "idle" /\ pc'[t] = "idle"

\* C19: reserve(additional) on an anonymous or path-backed block raises
\* size() by at least additional, never lowers it, and leaves every byte below
\* the old size as it was.
C19_ReserveGrowsKeepsBytes ==
    [][\A t \in Threads :
         IsReserve(t) =>
            LET additional == blocks'[t].capacity - blocks[t].capacity
            IN /\ additional >= 0
               /\ blocks'[t].size >= blocks[t].size + additional
               /\ blocks'[t].size >= blocks[t].size
               /\ Len(BlockBytes(t)') = blocks'[t].size
               /\ \A i \in 1..blocks[t].size :
                     BlockBytes(t)'[i] = BlockBytes(t)[i]]_vars

\* a path-backed block holding a written byte has just been grown
C19_Witness ==
    /\ blast.op = "reserve" /\ blast.path # NoPath
    /\ blocks[blast.t].capacity = MaxCap
    /\ \E i \in 1..Len(BlockBytes(blast.t)) : BlockBytes(blast.t)[i] = 1

\* thread t's step is a build that returns a path-backed block
IsPathBuild(t) ==
    /\ pc[t] = "build" /\ pc'[t] = "idle"
    /\ blocks'[t].state = "live" /\ blocks'[t].path # NoPath

\* C34: for a path-backed block, after build and after every reserve the
\* backing file's length is the block's size(), and size() is capacity()
\* times size_of::<T>().
C34_FileLengthIsSize ==
    [][\A t \in Threads :
         (IsPathBuild(t) \/ (IsReserve(t) /\ blocks[t].path # NoPath)) =>
            /\ Len(files'[blocks'[t].path]) = blocks'[t].size
            /\ blocks'[t].size = blocks'[t].capacity * blocks'[t].tsize]_vars

\* a path-backed block of two-byte elements has just been grown to MaxCap
\* elements
C34_Witness ==
    /\ blast.op = "reserve" /\ blast.path # NoPath
    /\ blocks[blast.t].tsize = 2 /\ blocks[blast.t].capacity = MaxCap
    /\ Len(files[blast.path]) = 2 * MaxCap

-----------------------------------------------------------------------------
\* PersistedCell / PersistedUnsafeCell (persist/persisted_cell.rs,
\* persist/persisted_unsafe_cell.rs)

CellNames == {"a", "b", "c"}
\* the values of T; T::default() is 0, which is also what a fresh mapping holds
CellValues == {0, 1, 2}
\* T::default()
Default == 0
\* align_of::<T>()
Aligns == {1, 8}
\* byte offsets into a cell's block
Offsets == 0..7
\* addresses a mapping starts at: mappings start on a page boundary, which is
\* a multiple of every alignment
Bases == {0, 8}

NoCell == [live |-> FALSE, base |-> 0, align |-> 1, mem |-> <<>>, stored |-> 0]
CLast(op, c, arg, ret) == [op |-> op, c |-> c, arg |-> arg, ret |-> ret]

\* block.as_ptr_mut(): the offset of the block's first byte
AsPtr(base) == 0

\* block.as_aligned_ptr::<T>(): the offset of the first address at or after
\* the base that is a multiple of T's alignment
AsAlignedPtr(base, align) == (align - (base % align)) % align

\* PersistedUnsafeCell::get on cell c: the offset of the wrapped value
Get(c) == AsAlignedPtr(cells[c].base, cells[c].align)

\* a replace that hands back the old value and does not store the new one
ReplacedNothing(old, value) == [ret |-> old, now |-> old]

\* std::ptr::replace(dst, value): what is returned and what dst holds after
Replaced(old, value) == [ret |-> old, now |-> value]

\* a swap that copies the second value over the first and leaves the second
SwappedCopy(x, y) == [x |-> y, y |-> y]

\* std::ptr::swap(x, y): what the two places hold afterwards
Swapped(x, y) == [x |-> y, y |-> x]

CellInit ==
    /\ cells = [c \in CellNames |-> NoCell]
    /\ clast = CLast("none", "a", 0, 0)

\* PersistedCell::new(block, value): the value is written at as_ptr_mut()
CellNew(c, base, align, value) ==
    /\ ~cells[c].live
    /\ cells' = [cells EXCEPT ![c] =
          [live |-> TRUE, base |-> base, align |-> align,
           mem |-> [o \in Offsets |-> IF o = AsPtr(base) THEN value ELSE 0],
           stored |-> value]]
    /\ clast' = CLast("new", c, value, 0)
    /\ UNCHANGED <<vecVars, blkVars, splVars, othVars>>

\* set(val): *self.unsafe_cell.get() = val
CellSet(c, val) ==
    /\ cells[c].live
    /\ cells' = [cells EXCEPT ![c].mem[Get(c)] = val, ![c].stored = val]
    /\ clast' = CLast("set", c, val, 0)
    /\ UNCHANGED <<vecVars, blkVars, splVars, othVars>>

\* get(): *self.unsafe_cell.get()
CellGet(c) ==
    /\ cells[c].live
    /\ clast' = CLast("get", c, 0, cells[c].mem[Get(c)])
    /\ UNCHANGED cells
    /\ UNCHANGED <<vecVars, blkVars, splVars, othVars>>

\* replace(value): std::ptr::replace(self.unsafe_cell.get(), value)
CellReplace(c, value) ==
    /\ cells[c].live
    /\ LET r == Replaced(cells[c].mem[Get(c)], value)
       IN /\ cells' = [cells EXCEPT ![c].mem[Get(c)] = r.now,
                                    ![c].stored = value]
          /\ clast' = CLast("replace", c, value, r.ret)
    /\ UNCHANGED <<vecVars, blkVars, splVars, othVars>>

\* take(): self.replace(T::default())
CellTake(c) ==
    /\ cells[c].live
    /\ LET r == Replaced(cells[c].mem[Get(c)], Default)
       IN /\ cells' = [cells EXCEPT ![c].mem[Get(c)] = r.now,
                                    ![c].stored = Default]
          /\ clast' = CLast("take", c, Default, r.ret)
    /\ UNCHANGED <<vecVars, blkVars, splVars, othVars>>

\* swap(other): std::ptr::swap(self.unsafe_cell.get(), other.unsafe_cell.get())
CellSwap(c, other) ==
    /\ cells[c].live /\ cells[other].live
    /\ LET r == Swapped(cells[c].mem[Get(c)], cells[other].mem[Get(other)])
       IN /\ cells' = [x \in CellNames |->
                IF x = other
                THEN [cells[other] EXCEPT !.mem[Get(other)] = r.y,
                                          !.stored = cells[c].stored]
                ELSE IF x = c
                THEN [cells[c] EXCEPT !.mem[Get(c)] = r.x,
                                      !.stored = cells[other].stored]
                ELSE cells[x]]
          \* arg: the other cell; ret: what the two cells held before
          /\ clast' = CLast("swap", c, other,
                            <<cells[c].mem[Get(c)], cells[other].mem[Get(other)]>>)
    /\ UNCHANGED <<vecVars, blkVars, splVars, othVars>>

\* Drop for PersistedUnsafeCell: the value is read out of the block once
\* (ptr::read) and dropped; moved counts the reads by value so far
DropCell(c, moved) == moved + 1

\* the cell goes out of scope: Drop for PersistedUnsafeCell runs, then the
\* block is dropped
CellDrop(c) ==
    /\ cells[c].live
    /\ cells' = [cells EXCEPT ![c] = NoCell]
    \* arg: how often the value was moved out of the block
    /\ clast' = CLast("drop", c, DropCell(c, 0), cells[c].mem[AsPtr(cells[c].base)])
    /\ UNCHANGED <<vecVars, blkVars, splVars, othVars>>

\* into_inner(self): ptr::read(as_aligned_ptr()) moves the value out; self
\* then goes out of scope at the end of into_inner, which runs Drop for
\* PersistedUnsafeCell on it
CellIntoInner(c) ==
    /\ cells[c].live
    /\ LET read == 1
       IN clast' = CLast("into_inner", c, DropCell(c, read),
                         cells[c].mem[Get(c)])
    /\ cells' = [cells EXCEPT ![c] = NoCell]
    /\ UNCHANGED <<vecVars, blkVars, splVars, othVars>>

CellNext ==
    \/ \E c \in CellNames, base \in Bases, align \in Aligns, v \in CellValues :
          CellNew(c, base, align, v)
    \/ \E c \in CellNames, v \in CellValues : CellSet(c, v)
    \/ \E c \in CellNames : CellGet(c)
    \/ \E c \in CellNames, v \in CellValues : CellReplace(c, v)
    \/ \E c \in CellNames : CellTake(c)
    \/ \E c \in CellNames, other \in CellNames : CellSwap(c, other)
    \/ \E c \in CellNames : CellDrop(c)
    \/ \E c \in CellNames : CellIntoInner(c)

InitCell == CellInit /\ VecIdle /\ BlkIdle /\ SplIdle /\ OthIdle

\* base pointers at every offset from an 8-byte boundary
AnyBases == 0..7

\* *cell.get_mut() = val: the store goes through as_aligned_ptr_mut()
CellGetMut(c, val) ==
    /\ cells[c].live
    /\ cells' = [cells EXCEPT ![c].mem[AsAlignedPtr(cells[c].base,
                                                    cells[c].align)] = val,
                              ![c].stored = val]
    /\ clast' = CLast("get_mut", c, val, 0)
    /\ UNCHANGED <<vecVars, blkVars, splVars, othVars>>

\* one cell on a block whose base pointer may stand at any offset
CellAddrNext ==
    \/ \E base \in AnyBases, align \in Aligns, v \in CellValues :
          CellNew("a", base, align, v)
    \/ \E v \in CellValues : CellSet("a", v)
    \/ \E v \in CellValues : CellGetMut("a", v)
    \/ CellGet("a")
    \/ CellDrop("a")
    \/ CellIntoInner("a")

SpecCellAddr == InitCell /\ [][CellAddrNext]_vars

\* three PersistedCells created, used and dropped from one thread
SpecCell == InitCell /\ [][CellNext]_vars

-----------------------------------------------------------------------------
\* Properties of PersistedCell, checked under SpecCell

\* C20: get() returns the value most recently stored in the cell by new, set,
\* replace or take (take stores T::default(); swap stores the other cell's
\* value); replace(v) and take() return what get() would have returned just
\* before the call.
C20_GetReturnsLastStored ==
    [][/\ clast'.op = "get" => clast'.ret = cells[clast'.c].stored
       /\ clast'.op \in {"replace", "take"} =>
              /\ clast'.ret = cells[clast'.c].stored
              /\ clast'.ret = cells[clast'.c].mem[Get(clast'.c)]
              /\ cells'[clast'.c].mem[Get(clast'.c)] = clast'.arg
       /\ clast'.op = "take" => clast'.arg = Default
       /\ clast'.op \in {"new", "set"} =>
              cells'[clast'.c].mem[Get(clast'.c)] = clast'.arg]_vars

\* get() has just returned the non-default value last stored in a cell whose
\* type has the largest alignment
C20_Witness ==
    /\ clast.op = "get" /\ clast.ret = 2
    /\ cells[clast.c].stored = 2
    /\ cells[clast.c].align = 8 /\ cells[clast.c].base = 8

\* what get() returns on cell c
Value(c) == cells[c].mem[Get(c)]

\* what get() returns on cell c after the step
ValueAfter(c) ==
    cells'[c].mem[AsAlignedPtr(cells'[c].base, cells'[c].align)]

\* C21: a.swap(&b) exchanges the two cells' values and changes no other
\* cell; a second swap of the same two cells restores both.
C21_SwapExchanges ==
    [][clast'.op = "swap" =>
         LET a == clast'.c
             b == clast'.arg
         IN /\ ValueAfter(a) = Value(b)
            /\ ValueAfter(b) = Value(a)
            /\ \A x \in CellNames \ {a, b} : cells'[x] = cells[x]
            /\ (clast.op = "swap" /\ clast.c = a /\ clast.arg = b) =>
                  <<ValueAfter(a), ValueAfter(b)>> = clast.ret]_vars

\* two cells holding 1 and 2 have just been swapped while a third cell exists
C21_Witness ==
    /\ clast.op = "swap" /\ clast.c # clast.arg
    /\ clast.ret = <<1, 2>>
    /\ Value(clast.c) = 2 /\ Value(clast.arg) = 1
    /\ \E x \in CellNames \ {clast.c, clast.arg} :
          cells[x].live /\ Value(x) = 2

\* C22: whether a cell's life ends by drop or by into_inner, the wrapped
\* value is moved out of the block exactly once.
C22_MovedOutOnce ==
    [][clast'.op \in {"drop", "into_inner"} => clast'.arg = 1]_vars

-----------------------------------------------------------------------------
\* Split and SplitMut as views of a vector: chunk counts and chunk ranges

\* the longest vector that is split
MaxChunkLen == 3
\* the largest split size
MaxSplitSize == 3

\* a chunk count that rounds down
len_floor(n, split_size) == n \div split_size

\* Split::len
len(n, split_size) ==
    LET start == n \div split_size
    IN IF n % split_size = 0 THEN start ELSE start + 1

\* vec.split(k) / vec.split_mut(k) on a vector of some length
ChunkInit ==
    /\ \E n \in 0..MaxChunkLen, k \in 1..MaxSplitSize :
          /\ split = [len |-> n, split_size |-> k,
                      access |-> [c \in 0..(split_count(n, k) - 1) |-> 0]]
          /\ holds = [c \in 0..(split_count(n, k) - 1) |-> NoHold]
    /\ spc = [t \in Threads |-> "idle"]
    /\ sreq = [t \in Threads |-> NoSReq]
    /\ slast = SLast("new", 0, "none")

\* Split::len()
SplitLen ==
    /\ slast' = SCount("Split::len", len(split.len, split.split_size))
    /\ UNCHANGED <<split, holds, spc, sreq>>
    /\ UNCHANGED <<vecVars, blkVars, cellVars, othVars>>

\* SplitMut::len()
SplitMutLen ==
    /\ slast' = SCount("SplitMut::len",
                       split_count(split.len, split.split_size))
    /\ UNCHANGED <<split, holds, spc, sreq>>
    /\ UNCHANGED <<vecVars, blkVars, cellVars, othVars>>

\* Split::get(index)
SplitGet(index) ==
    /\ slast' = SLast("get", index,
                      IF Lower(index) < split.len THEN "Some" ELSE "None")
    /\ UNCHANGED <<split, holds, spc, sreq>>
    /\ UNCHANGED <<vecVars, blkVars, cellVars, othVars>>

ChunkNext ==
    \/ SplitLen
    \/ SplitMutLen
    \/ \E index \in 0..MaxChunkLen : SplitGet(index)
    \/ \E index \in 0..MaxChunkLen : ReadLoad(1, index)
    \/ ReadCas(1)
    \/ \E index \in 0..MaxChunkLen : Write(1, index)
    \/ \E index \in 0..MaxChunkLen, kind \in {"r", "w"} : Release(index, kind)

InitChunk == ChunkInit /\ VecIdle /\ BlkIdle /\ CellIdle /\ OthIdle

\* one thread asking Split and SplitMut for chunk counts and chunks
SpecChunk == InitChunk /\ [][ChunkNext]_vars

-----------------------------------------------------------------------------
\* Properties of chunk counts and ranges, checked under SpecChunk

\* ceil(n / k): the least q with q * k >= n
CeilDiv(n, k) == CHOOSE q \in 0..n : q * k >= n /\ \A r \in 0..(q - 1) : r * k < n

\* C23: Split::len() and SplitMut::len() equal ceil(n / k) for every vector
\* length n and split size k >= 1 (0 for an empty vector).
C23_LenIsCeiling ==
    [][slast'.op \in {"Split::len", "SplitMut::len"} =>
         /\ slast'.count = CeilDiv(split.len, split.split_size)
         /\ split.len = 0 => slast'.count = 0]_vars

\* SplitMut::len() has just rounded the count of chunks up
C23_Witness ==
    /\ slast.op = "SplitMut::len"
    /\ split.len % split.split_size # 0
    /\ slast.count * split.split_size > split.len
    /\ slast.count > 1

\* the vector indexes 0 .. n-1 in order
Iota(n) == [j \in 1..n |-> j - 1]

\* the chunks 0 .. c-1 one after the other
RECURSIVE Flatten(_)
Flatten(c) == IF c <= 0 THEN <<>> ELSE Flatten(c - 1) \o ChunkSlice(c - 1)

\* the vector indexes a sequence of them holds
Range(q) == {q[j] : j \in DOMAIN q}

\* C24: chunk i as returned by Split::get, SplitMut::read and
\* SplitMut::write covers exactly the indexes [i*k, min(len, (i+1)*k)); the
\* chunks are pairwise disjoint, have at most k elements with only the last
\* possibly shorter, concatenate to the whole vector, and all have k
\* elements when len is a multiple of k.
C24_ChunksPartitionVector ==
    [][LET n == split.len
           k == split.split_size
           i == slast'.index
       IN /\ (slast'.op = "get" /\ slast'.res = "None") => i \notin Chunks
          /\ (slast'.op \in {"get", "read", "write"} /\ slast'.res = "Some") =>
               /\ i \in Chunks
               /\ Range(slast'.slice) = {j \in 0..(n - 1) : j \div k = i}
               /\ \A j \in 1..(Len(slast'.slice) - 1) :
                     slast'.slice[j + 1] = slast'.slice[j] + 1
               /\ Flatten(Cardinality(Chunks)) = Iota(n)
               /\ \A c \in Chunks :
                     /\ Len(ChunkSlice(c)) >= 1 /\ Len(ChunkSlice(c)) <= k
                     /\ c + 1 \in Chunks => Len(ChunkSlice(c)) = k
                     /\ n % k = 0 => Len(ChunkSlice(c)) = k
               /\ \A c, d \in Chunks :
                     c # d =>
                       Range(ChunkSlice(c)) \cap Range(ChunkSlice(d)) = {}]_vars

\* write has just returned the last chunk, which is shorter than the others
C24_Witness ==
    /\ slast.op = "write" /\ slast.res = "Some"
    /\ slast.index > 0 /\ slast.index + 1 \notin Chunks
    /\ Len(slast.slice) >= 1 /\ Len(slast.slice) < split.split_size
    /\ slast.slice[Len(slast.slice)] = split.len - 1

-----------------------------------------------------------------------------
\* push, its growth loop one iteration at a time (persist/persisted_vec.rs)

\* size_of::<T>(), zero-sized element types included
AnyElemSizes == {0, 1, 4}

\* a vector of some length on an arena of some size, of any element type
PushInit ==
    /\ elemSize \in AnyElemSizes
    /\ blockSize \in InitSizes \cup {WordSize + MaxLen}
    /\ lenWord \in 0..(MaxLen - 1)
    /\ mem = [i \in 1..MemSlots |-> 0]
    /\ live = TRUE
    /\ fault = FALSE
    /\ vfile = NoFile
    /\ drain = NoDrain
    /\ last = Rec("new", 0, <<>>)
    /\ shadow = <<>>
    /\ mode = "idle"

\* push(value) is called
PushCall(v) ==
    /\ mode = "idle"
    /\ lenWord < MaxLen
    /\ mode' = "push"
    /\ last' = Rec("push_call", 0, <<v>>)
    /\ UNCHANGED <<elemSize, blockSize, lenWord, mem, live, fault, vfile,
                   drain, shadow>>
    /\ UNCHANGED <<blkVars, extVars>>

\* one iteration of while self.len() + 1 >= self.capacity():
\* block.reserve(capacity * T::size() + value.size_of())
PushReserve ==
    /\ mode = "push"
    /\ lenWord + 1 >= Capacity(blockSize)
    /\ blockSize' = BlockReserve(blockSize,
                                 Capacity(blockSize) * elemSize + elemSize)
    /\ last' = [last EXCEPT !.arg = IF @ < 2 THEN @ + 1 ELSE @]
    /\ UNCHANGED <<elemSize, lenWord, mem, live, fault, vfile, drain,
                   shadow, mode>>
    /\ UNCHANGED <<blkVars, extVars>>

\* the loop is left: ptr::write at len, set_len(len + 1)
PushWrite ==
    /\ mode = "push"
    /\ ~(lenWord + 1 >= Capacity(blockSize))
    /\ mem' = [mem EXCEPT ![lenWord + 1] = last.ret[1]]
    /\ lenWord' = lenWord + 1
    /\ mode' = "idle"
    /\ last' = Rec("push", last.arg, last.ret)
    /\ UNCHANGED <<elemSize, blockSize, live, fault, vfile, drain, shadow>>
    /\ UNCHANGED <<blkVars, extVars>>

PushNext ==
    \/ \E v \in Values : PushCall(v)
    \/ PushReserve
    \/ PushWrite

InitPush == PushInit /\ BlkIdle /\ ExtIdle

\* pushes onto a vector, the thread inside push always running on
SpecPush ==
    InitPush /\ [][PushNext]_vars /\ WF_vars(PushReserve) /\ WF_vars(PushWrite)

\* C37: push always terminates: for every element size, zero included, and
\* every starting len and arena size the growth loop ends after finitely
\* many reserve calls and the element is written.
C37_PushTerminates == (mode = "push") ~> (mode = "idle")

-----------------------------------------------------------------------------
\* DiskVector on a RawDiskArray (mem/disk_vector.rs, mem/disk_array.rs)

\* the most elements pushed
MaxDiskLen == 4
\* the largest initial capacity
MaxDiskCap == 2
\* pub const DEFAULT_DISK_VECTOR_CAPACITY
DEFAULT_DISK_VECTOR_CAPACITY == 8

\* a RawDiskArray made on a file that was emptied first
RawDiskArrayNewTruncating(f, n) == Zeros(n)

\* RawDiskArray::new(len, file): file.set_len(size_of::<T>() * len), then the
\* file is mapped shared; what the file (and so the mapping) holds, in
\* elements
RawDiskArrayNew(f, n) == SetLen(f, n)

\* push's new_len: how much push reserves when len == capacity
NewLen(n) == IF n > 0 THEN n * 2 - n ELSE DEFAULT_DISK_VECTOR_CAPACITY

DLast(op, arg, ret) == [op |-> op, arg |-> arg, ret |-> ret]

\* DiskVector::with_capacity(cap, file) on an empty file; new(file) is
\* with_capacity(0, file), which maps nothing
DiskInit ==
    \E cap \in 0..MaxDiskCap :
        dvec = [len |-> 0, capacity |-> cap,
                file |-> IF cap > 0 THEN RawDiskArrayNew(<<>>, cap) ELSE <<>>,
                pushed |-> <<>>,
                last |-> DLast("with_capacity", cap, <<>>)]

\* push(value)
DiskPush(v) ==
    /\ dvec.len < MaxDiskLen
    /\ LET grow == dvec.len = dvec.capacity
           \* reserve(additional): RawDiskArray::new(self.len + additional)
           cap1 == IF grow THEN dvec.len + NewLen(dvec.len) ELSE dvec.capacity
           file1 == IF grow THEN RawDiskArrayNew(dvec.file, cap1) ELSE dvec.file
       IN dvec' = [len |-> dvec.len + 1, capacity |-> cap1,
                   file |-> [file1 EXCEPT ![dvec.len + 1] = v],
                   pushed |-> Append(dvec.pushed, v),
                   last |-> DLast("push", IF grow THEN 1 ELSE 0, <<v>>)]
    /\ UNCHANGED <<coreVars, segm, auth>>

\* pop()
DiskPop ==
    /\ IF dvec.len > 0
       THEN dvec' = [dvec EXCEPT
                       !.len = @ - 1,
                       !.pushed = SubSeq(@, 1, Len(@) - 1),
                       !.last = DLast("pop", 0, <<dvec.file[dvec.len]>>)]
       ELSE dvec' = [dvec EXCEPT !.last = DLast("pop", 0, <<>>)]
    /\ UNCHANGED <<coreVars, segm, auth>>

\* as_slice(): the first len elements of the mapping, or &[] when len is 0
AsSlice == IF dvec.len = 0 THEN <<>> ELSE SubSeq(dvec.file, 1, dvec.len)

\* get(j), through Deref<Target = [T]>
DiskGet(j) ==
    /\ dvec' = [dvec EXCEPT !.last =
                  DLast("get", j, IF j < Len(AsSlice) THEN <<AsSlice[j + 1]>>
                                  ELSE <<>>)]
    /\ UNCHANGED <<coreVars, segm, auth>>

DiskNext ==
    \/ \E v \in Values : DiskPush(v)
    \/ DiskPop
    \/ \E j \in 0..MaxDiskLen : DiskGet(j)

InitDisk ==
    /\ DiskInit /\ segm = <<>> /\ auth = <<>>
    /\ VecIdle /\ BlkIdle /\ SplIdle /\ CellIdle

\* pushes, pops and reads on one DiskVector
SpecDisk == InitDisk /\ [][DiskNext]_vars

\* C38: after any pushes and pops from any initial capacity, 0 included,
\* len <= capacity; get(j) is the j-th live element for j < len and None
\* from len on; pop returns the elements last pushed first; a push that
\* grows keeps every element pushed before it.
C38_DiskVectorIsAVec ==
    [][/\ dvec'.len <= dvec'.capacity
       /\ dvec'.len = Len(dvec'.pushed)
       /\ dvec'.last.op = "get" =>
            dvec'.last.ret = IF dvec'.last.arg < Len(dvec.pushed)
                             THEN <<dvec.pushed[dvec'.last.arg + 1]>>
                             ELSE <<>>
       /\ dvec'.last.op = "pop" =>
            dvec'.last.ret = IF dvec.pushed = <<>> THEN <<>>
                             ELSE <<dvec.pushed[Len(dvec.pushed)]>>
       /\ dvec'.last.op = "push" =>
            SubSeq(dvec'.file, 1, dvec'.len) = dvec'.pushed]_vars

\* a push has just grown a vector that started at capacity 1 for the second
\* time, with a non-zero element below
C38_Witness ==
    /\ dvec.last.op = "push" /\ dvec.last.arg = 1
    /\ dvec.len = 3 /\ dvec.capacity = 4
    /\ dvec.pushed[1] = 1

-----------------------------------------------------------------------------
\* Segment<T>, Ref and RefMut (index/segments.rs), T a sequence of bytes

\* the longest value
MaxSegLen == 2

\* the values of T: byte sequences of up to MaxSegLen bytes
SegValues == UNION {[1..n -> {0, 1}] : n \in 0..MaxSegLen}

\* the sizes of the mapping: one takes every value's encoding, one does not
SegSizes == {MaxSegLen, MaxSegLen + 1}

\* postcard's encoding of a sequence: its length, then its elements
Encode(v) == <<Len(v)>> \o v

SegOk(v) == [ok |-> TRUE, v |-> v]
SegErr == [ok |-> FALSE, v |-> <<>>]

\* postcard::from_bytes: the length, then that many elements; bytes behind
\* them are ignored, an input that ends early is an error
Decode(bytes) ==
    IF bytes = <<>> THEN SegErr
    ELSE IF Len(bytes) - 1 < bytes[1] THEN SegErr
    ELSE SegOk(SubSeq(bytes, 2, 1 + bytes[1]))

\* the encoding of v fits a mapping of size bytes
Fits(v, size) == Len(Encode(v)) <= size

\* write_to_map: the encoding is written over the front of the mapping;
\* when the mapping is full the write stops with an error, what was written
\* stays
WriteToMap(v, bytes) ==
    LET enc == Encode(v)
    IN IF Len(enc) <= Len(bytes)
       THEN [ok |-> TRUE,
             bytes |-> enc \o SubSeq(bytes, Len(enc) + 1, Len(bytes))]
       ELSE [ok |-> FALSE, bytes |-> SubSeq(enc, 1, Len(bytes))]

\* self.cached_read_value.write().take()
CacheTaken(cache) == <<>>

\* RefMut::flush: the value is written only if it was mutably dereferenced
Flush(r, bytes) ==
    IF r.write_accessed THEN WriteToMap(r.data, bytes)
    ELSE [ok |-> TRUE, bytes |-> bytes]

GLast(op, ret) == [op |-> op, ret |-> ret]

\* SegmentBuilder::build on an anonymous mapping with an initial value; a
\* build whose initial value does not fit returns Err and makes no segment
SegInit ==
    \E size \in SegSizes : \E v \in {x \in SegValues : Fits(x, size)} :
        segm = [bytes |-> WriteToMap(v, [i \in 1..size |-> 0]).bytes,
                cache |-> <<>>,
                refmut |-> <<>>,
                want |-> v,
                last |-> GLast("build", SegOk(v))]

\* try_get(&self): the cached value if there is one, otherwise the mapped
\* bytes are decoded and the value is cached; no RefMut is live (it borrows
\* the segment mutably)
SegTryGet ==
    /\ segm.refmut = <<>>
    /\ IF segm.cache # <<>>
       THEN segm' = [segm EXCEPT !.last = GLast("try_get", SegOk(segm.cache[1]))]
       ELSE LET r == Decode(segm.bytes)
            IN segm' = [segm EXCEPT
                          !.cache = IF r.ok THEN <<r.v>> ELSE <<>>,
                          !.last = GLast("try_get", r)]
    /\ UNCHANGED <<coreVars, dvec, auth>>

\* try_get_mut(&mut self): decode, drop the cached value, hand out a RefMut
SegTryGetMut ==
    /\ segm.refmut = <<>>
    /\ LET r == Decode(segm.bytes)
       IN IF r.ok
          THEN segm' = [segm EXCEPT
                          !.cache = CacheTaken(@),
                          !.refmut = <<[data |-> r.v, write_accessed |-> FALSE]>>,
                          !.last = GLast("try_get_mut", r)]
          ELSE segm' = [segm EXCEPT !.last = GLast("try_get_mut", r)]
    /\ UNCHANGED <<coreVars, dvec, auth>>

\* the value is changed through DerefMut / AsMut of the RefMut
SegDerefMut(v) ==
    /\ segm.refmut # <<>>
    /\ segm' = [segm EXCEPT
                  !.refmut = <<[data |-> v, write_accessed |-> TRUE]>>,
                  !.last = GLast("deref_mut", SegOk(v))]
    /\ UNCHANGED <<coreVars, dvec, auth>>

\* RefMut::flush() called by the holder
SegFlush ==
    /\ segm.refmut # <<>>
    /\ LET w == Flush(segm.refmut[1], segm.bytes)
       IN segm' = [segm EXCEPT
                     !.bytes = w.bytes,
                     !.last = GLast("flush", IF w.ok THEN SegOk(<<>>) ELSE SegErr)]
    /\ UNCHANGED <<coreVars, dvec, auth>>

\* Drop for RefMut: let _ = self.flush()
SegDropRefMut ==
    /\ segm.refmut # <<>>
    /\ LET r == segm.refmut[1]
           w == Flush(r, segm.bytes)
       IN segm' = [segm EXCEPT
                     !.bytes = w.bytes,
                     !.refmut = <<>>,
                     !.want = IF r.write_accessed THEN r.data ELSE @,
                     !.last = GLast("drop", SegOk(<<>>))]
    /\ UNCHANGED <<coreVars, dvec, auth>>

SegNext ==
    \/ SegTryGet
    \/ SegTryGetMut
    \/ \E v \in SegValues : SegDerefMut(v)
    \/ SegFlush
    \/ SegDropRefMut

InitSegment ==
    /\ SegInit /\ dvec = <<>> /\ auth = <<>>
    /\ VecIdle /\ BlkIdle /\ SplIdle /\ CellIdle

\* one owner calling try_get and try_get_mut on a segment
SpecSegment == InitSegment /\ [][SegNext]_vars

\* the RefMut that is live before the step was never mutably dereferenced
Untouched == segm.refmut # <<>> /\ ~segm.refmut[1].write_accessed

\* C39: try_get never returns a stale cached value: it returns the value as
\* last modified through a dropped RefMut (the initial value before any),
\* and a RefMut never mutably dereferenced writes nothing on flush or drop.
C39_TryGetNeverStale ==
    [][/\ segm'.last.op = "try_get" => segm'.last.ret = SegOk(segm.want)
       /\ (segm'.last.op \in {"flush", "drop"} /\ Untouched) =>
            segm'.bytes = segm.bytes]_vars

-----------------------------------------------------------------------------
\* AuthenticationToolchain (auth/authentication.rs) and the
\* AdminAuthenticationService (auth/authentication/admin_service.rs)

\* the longest toolchain and the longest request
MaxServices == 3
MaxPayloads == 2

\* the services pushed behind the admin service: each answers every request
\* with one fixed result (a user, or one of the three errors)
PushedServices == {"user", "WrongPassword", "UnknownIdentifier",
                   "UnsupportedRequestKind"}

\* a Basic payload: the username, and whether the password verifies against
\* the stored admin hash
Payloads == [username : {"admin", "bob"}, verifies : BOOLEAN]

Requests == UNION {[1..n -> Payloads] : n \in 0..MaxPayloads}

AuthOk(user) == [ok |-> TRUE, user |-> user, err |-> "none"]
AuthErr(e) == [ok |-> FALSE, user |-> "none", err |-> e]

\* AdminAuthenticationService::authenticate: the passwords of the payloads
\* named admin are verified in turn
AdminAuthenticate(rq) ==
    LET admins == {k \in 1..Len(rq) : rq[k].username = "admin"}
    IN IF \E k \in admins : rq[k].verifies THEN AuthOk("admin")
       ELSE IF admins # {} THEN AuthErr("WrongPassword")
       ELSE AuthErr("UnknownIdentifier")

\* service.authenticate(&req)
Authenticate(service, rq) ==
    IF service = "admin" THEN AdminAuthenticate(rq)
    ELSE IF service = "user" THEN AuthOk("bob")
    ELSE AuthErr(service)

\* a try_next that lets every error pass on to the next service
TryNextAlways(e) == TRUE

\* AuthenticationError::try_next
TryNext(e) == e # "WrongPassword"

\* AuthenticationToolchain::new: the admin service is the first service
AuthInit ==
    auth = [services |-> <<"admin">>,
            req |-> <<>>,
            i |-> 0,
            errs |-> <<>>,
            pc |-> "idle",
            ret |-> [kind |-> "none", user |-> "none", errs |-> <<>>]]

\* push: the service goes to the end of the toolchain
AuthPush(service) ==
    /\ auth.pc = "idle"
    /\ Len(auth.services) < MaxServices
    /\ auth' = [auth EXCEPT !.services = Append(@, service)]
    /\ UNCHANGED <<coreVars, dvec, segm>>

\* authenticate is called: let mut errs = Vec::new()
AuthCall(rq) ==
    /\ auth.pc = "idle"
    /\ auth' = [auth EXCEPT !.req = rq, !.i = 1, !.errs = <<>>,
                            !.pc = "services_loop"]
    /\ UNCHANGED <<coreVars, dvec, segm>>

\* one turn of 'services_loop, or the Err(errs) behind it
AuthStep ==
    /\ auth.pc = "services_loop"
    /\ IF auth.i > Len(auth.services)
       THEN auth' = [auth EXCEPT
                       !.pc = "idle",
                       !.ret = [kind |-> "Err", user |-> "none", errs |-> auth.errs]]
       ELSE LET result == Authenticate(auth.services[auth.i], auth.req)
                errs == Append(auth.errs, result.err)
            IN IF result.ok
               THEN auth' = [auth EXCEPT
                               !.pc = "idle",
                               !.ret = [kind |-> "Ok", user |-> result.user,
                                        errs |-> <<>>]]
               ELSE IF TryNext(result.err)
               THEN auth' = [auth EXCEPT !.errs = errs, !.i = @ + 1]
               ELSE auth' = [auth EXCEPT
                               !.errs = errs,
                               !.pc = "idle",
                               !.ret = [kind |-> "Err", user |-> "none",
                                        errs |-> errs]]
    /\ UNCHANGED <<coreVars, dvec, segm>>

AuthNext ==
    \/ \E service \in PushedServices : AuthPush(service)
    \/ \E rq \in Requests : AuthCall(rq)
    \/ AuthStep

InitAuth ==
    /\ AuthInit /\ dvec = <<>> /\ segm = <<>>
    /\ VecIdle /\ BlkIdle /\ SplIdle /\ CellIdle

\* one caller of a toolchain
SpecAuth == InitAuth /\ [][AuthNext]_vars

\* what the k-th service of the toolchain answers to the request
Answer(k) == Authenticate(auth.services[k], auth.req)

\* the services 1..k-1 all failed with an error other than WrongPassword
PassedOn(k) ==
    \A j \in 1..(k - 1) : ~Answer(j).ok /\ Answer(j).err # "WrongPassword"

\* C40: authenticate consults the services in insertion order: Ok is the
\* user of the first service that succeeds, every service before it having
\* failed with an error other than WrongPassword; Err holds the errors of
\* exactly the services consulted, in order, the last of them being the first
\* WrongPassword, or all services when there was none.
C40_AuthenticateInOrder ==
    [][(auth.pc = "services_loop" /\ auth'.pc = "idle") =>
         LET ret == auth'.ret
             n == Len(ret.errs)
         IN /\ ret.kind = "Ok" =>
                 \E k \in 1..Len(auth.services) :
                    /\ PassedOn(k)
                    /\ Answer(k).ok /\ ret.user = Answer(k).user
            /\ ret.kind = "Err" =>
                 /\ n <= Len(auth.services)
                 /\ PassedOn(n)
                 /\ \A j \in 1..n : ~Answer(j).ok /\ ret.errs[j] = Answer(j).err
                 /\ \/ n = Len(auth.services)
                    \/ n >= 1 /\ ret.errs[n] = "WrongPassword"]_vars

\* a call has returned the errors of two services, stopping at a
\* WrongPassword with a third service never consulted
C40_Witness ==
    /\ auth.pc = "idle" /\ auth.ret.kind = "Err"
    /\ Len(auth.services) = 3 /\ auth.services[3] = "user"
    /\ auth.ret.errs = <<"UnknownIdentifier", "WrongPassword">>

====
